---- MODULE Spec2Model ----
(***************************************************************************)
(* A model of the object-graph serialization core of krilla:               *)
(*   - ResourceMapper            (src/src/resource.rs)                     *)
(*   - FilterStream              (src/crates/krilla/src/stream.rs)         *)
(*   - SerializerContext::add    (src/src/serialize.rs)                    *)
(*   - ChunkContainer::finish    (src/crates/krilla/src/chunk_container.rs)*)
(* Each component has its own specification (SpecMapper, SpecFilter,       *)
(* SpecCache, and SpecFinish, SpecEmbed, SpecDocument for the container);  *)
(* the variables of the other components stay at their initial value.      *)
(***************************************************************************)
EXTENDS Integers, Sequences, FiniteSets, TLC

VARIABLES
    \* ---- ResourceMapper<V> (resource.rs:142-149)
    forward,        \* Vec<V>: the values in first-seen order
    backward,       \* HashMap<V, ResourceNumber>
    counter,        \* ResourceNumber field (set to 0 by new, never written again)
    mret,           \* what the last mapper call returned
    mhist,          \* history of the remap calls: <<value, number, name>>
    \* ---- FilterStream (stream.rs:175-178) and its caller's inputs
    fstream,        \* None before construction, else [content, filters]
    finput,         \* the content handed to the constructor
    fsettings,      \* SerializeSettings: compress_content_streams, ascii_compatible
    fctor,          \* which constructor built the stream
    fdict,          \* the Filter entry written by write_filters (None: not written)
    \* ---- SerializerContext (serialize.rs:38-45)
    cur_ref,          \* Ref: the next reference new_ref hands out
    cached_mappings,  \* HashMap<u128, Ref>
    sc_chunk,         \* Chunk: the objects written so far, [ref, refs]
    produced,         \* the objects serialize_into ran for, in order
    ahist,            \* the add calls so far (nested ones too):
                      \*   <<object, returned Ref, advance of cur_ref, runs of serialize_into>>
    fonts,            \* HashMap<Font, FontMapper>: font -> Vec<Type3Font>
    nhist,            \* the values new_ref handed out so far, in call order
    ghist,            \* map_glyph: seen, the <<font, glyph, index, code>> returned so
                      \*   far, and last, the <<font, glyph>> of the last call
    ncalls,           \* number of calls made on the context
    aret,             \* what the last call on the context returned: None, [ref],
                      \*   or [font_resource, glyph] from map_glyph
    \* ---- ChunkContainer and its finish (chunk_container.rs:20-45, 52-371)
    container,        \* field name -> sequence of slots (an Option holds 0 or 1)
    task_done,        \* ids of the Deferred slots whose background task completed
    new_chunk,        \* slot id -> EmbeddedPdfChunk::new_chunk (OnceLock), once set
    sc,               \* SerializeContext: cur_ref, settings, signer, global objects, diagnostics
    metadata,         \* ChunkContainer::metadata: Option<Metadata>
    pc,               \* "authoring", "pass1", "pass2", "assemble", "done", "signed"
    cursor,           \* position of finish in the traversal
    remapper,         \* finish: HashMap<Ref, Ref>, old -> new
    remapped_ref,     \* finish: the final counter
    pdf,              \* finish: the objects written so far
    result,           \* what finish returned: None, Ok, Err(e) or Panic
    seen1,            \* pass 1: <<slot id, chunk handed to the closure>> per visited slot
    seen2,            \* pass 2: <<slot id, chunk handed to the closure>> per visited slot
    remap_runs,       \* slot id -> how often the local remap of that embedded PDF ran
    overtaken,        \* a task completed while the task of an earlier slot was outstanding
    file_id,          \* Pdf::set_file_id: None, or the (document id, instance id) pair
    \* ---- ExtGState values (object/ext_g_state.rs:8-17)
    arcs,             \* the live Arc<Repr> allocations: allocation -> Repr
    egs,              \* the ExtGState values in scope: name -> the allocation it points to
    gop               \* the last operation on them

mapperVars == <<forward, backward, counter, mret, mhist>>
filterVars == <<fstream, finput, fsettings, fctor, fdict>>
cacheVars == <<cur_ref, cached_mappings, sc_chunk, produced, ahist, fonts, nhist, ghist,
               ncalls, aret>>

finishVars == <<container, task_done, new_chunk, sc, metadata, pc, cursor, remapper,
                remapped_ref, pdf, result, seen1, seen2, remap_runs, overtaken, file_id>>

gstateVars == <<arcs, egs, gop>>

vars == <<mapperVars, filterVars, cacheVars, finishVars, gstateVars>>

----------------------------------------------------------------------------
(* Helpers on sequences and functions *)

Range(s) == {s[i] : i \in DOMAIN s}

Last(s) == s[Len(s)]

RECURSIVE Reverse(_)
Reverse(s) == IF s = <<>> THEN <<>> ELSE Append(Reverse(Tail(s)), Head(s))

\* The concatenation of ss[lo], ..., ss[hi] (by halves, to keep the nesting shallow)
RECURSIVE FlattenRange(_, _, _)
FlattenRange(ss, lo, hi) ==
    IF lo > hi THEN <<>>
    ELSE IF lo = hi THEN ss[lo]
    ELSE LET mid == (lo + hi) \div 2
         IN FlattenRange(ss, lo, mid) \o FlattenRange(ss, mid + 1, hi)

Flatten(ss) == FlattenRange(ss, 1, Len(ss))

\* The sum of f[lo], ..., f[hi]
RECURSIVE SumRange(_, _, _)
SumRange(f, lo, hi) ==
    IF lo > hi THEN 0
    ELSE IF lo = hi THEN f[lo]
    ELSE LET mid == (lo + hi) \div 2
         IN SumRange(f, lo, mid) + SumRange(f, mid + 1, hi)

\* The rendering of a natural number by format!("{}", n): its decimal digits.
DigitChar(d) == <<"0", "1", "2", "3", "4", "5", "6", "7", "8", "9">>[d + 1]

RECURSIVE ToDecimal(_)
ToDecimal(n) == IF n < 10 THEN <<DigitChar(n)>>
                ELSE Append(ToDecimal(n \div 10), DigitChar(n % 10))

----------------------------------------------------------------------------
(* ResourceMapper (src/src/resource.rs)                                    *)

\* Bounds of the mapper model.
NumValues == 3
MaxCalls == 4

\* The resource values of one mapper; value equality is structural equality.
Values == 1 .. NumValues

\* V::get_name() of the mapper's value type ("cs" for PdfColorSpace).
get_name == <<"c", "s">>

NoneVal == [tag |-> "None"]
Some(x) == [tag |-> "Some", val |-> x]

\* ResourceMapper::name_from_number: format!("{}{}", V::get_name(), num)
name_from_number(num) == get_name \o ToDecimal(num)

\* The closure of remap: the number given to a value not seen before,
\* `forward.len() as ResourceNumber` (u32; lossless below 2^32 entries, which is
\* beyond what the checker's integers hold).
remap_fresh_number_off_by_one(fw) == Len(fw) + 1
remap_fresh_number(fw) == Len(fw)

\* ResourceMapper::remap: backward.entry(resource).or_insert_with(push to forward)
\* Yields the new (forward, backward) and the returned number.
remap_no_dedup(fw, bw, resource) ==
    [forward  |-> Append(fw, resource),
     backward |-> [v \in DOMAIN bw \cup {resource} |->
                      IF v = resource THEN remap_fresh_number(fw) ELSE bw[v]],
     ret      |-> remap_fresh_number(fw)]
remap(fw, bw, resource) ==
    IF resource \in DOMAIN bw
    THEN [forward |-> fw, backward |-> bw, ret |-> bw[resource]]
    ELSE [forward  |-> Append(fw, resource),
          backward |-> [v \in DOMAIN bw \cup {resource} |->
                           IF v = resource THEN remap_fresh_number(fw) ELSE bw[v]],
          ret      |-> remap_fresh_number(fw)]

\* ResourceMapper::get
get(bw, resource) == IF resource \in DOMAIN bw THEN Some(bw[resource]) ELSE NoneVal

\* ResourceMapper::get_entries: forward.iter().enumerate().map(name_from_number(i), r)
get_entries_reversed(fw) ==
    [i \in 1 .. Len(fw) |-> <<name_from_number(i - 1), fw[Len(fw) + 1 - i]>>]
get_entries(fw) ==
    [i \in 1 .. Len(fw) |-> <<name_from_number(i - 1), fw[i]>>]

MapperStart ==
    /\ forward = <<>>
    /\ backward = <<>>
    /\ counter = 0
    /\ mret = [op |-> "new"]
    /\ mhist = <<>>

\* mapper.remap(resource)
Remap(resource) ==
    /\ UNCHANGED <<filterVars, cacheVars, finishVars, gstateVars>>
    /\ Len(mhist) < MaxCalls
    /\ LET r == remap(forward, backward, resource) IN
        /\ forward' = r.forward
        /\ backward' = r.backward
        /\ mret' = [op |-> "remap", arg |-> resource, num |-> r.ret]
        /\ mhist' = Append(mhist, <<resource, r.ret, name_from_number(r.ret)>>)
    /\ UNCHANGED counter

\* mapper.remap_with_name(resource)
RemapWithName(resource) ==
    /\ UNCHANGED <<filterVars, cacheVars, finishVars, gstateVars>>
    /\ Len(mhist) < MaxCalls
    /\ LET r == remap(forward, backward, resource) IN
        /\ forward' = r.forward
        /\ backward' = r.backward
        /\ mret' = [op |-> "remap_with_name", arg |-> resource,
                    name |-> name_from_number(r.ret)]
        /\ mhist' = Append(mhist, <<resource, r.ret, name_from_number(r.ret)>>)
    /\ UNCHANGED counter

\* mapper.get(resource) and mapper.get_with_name(resource): read only
Get(resource) ==
    /\ UNCHANGED <<filterVars, cacheVars, finishVars, gstateVars>>
    /\ mret' = [op |-> "get", arg |-> resource, num |-> get(backward, resource)]
    /\ UNCHANGED <<forward, backward, counter, mhist>>

GetWithName(resource) ==
    /\ UNCHANGED <<filterVars, cacheVars, finishVars, gstateVars>>
    /\ mret' = [op |-> "get_with_name", arg |-> resource,
                name |-> IF get(backward, resource) = NoneVal THEN NoneVal
                         ELSE Some(name_from_number(get(backward, resource).val))]
    /\ UNCHANGED <<forward, backward, counter, mhist>>

\* mapper.get_entries().collect()
GetEntries ==
    /\ UNCHANGED <<filterVars, cacheVars, finishVars, gstateVars>>
    /\ mret' = [op |-> "get_entries", entries |-> get_entries(forward)]
    /\ UNCHANGED <<forward, backward, counter, mhist>>

MapperNext ==
    \/ \E v \in Values : Remap(v)
    \/ \E v \in Values : RemapWithName(v)
    \/ \E v \in Values : Get(v)
    \/ \E v \in Values : GetWithName(v)
    \/ GetEntries

----------------------------------------------------------------------------
(* FilterStream (src/crates/krilla/src/stream.rs)                          *)

\* Bounds of the filter model: the longest input and the number of byte patterns.
MaxLen == 71
NumSeeds == 3

\* Input byte sequences: every length up to MaxLen, filled from a seed byte
\* with a stride that walks through low (< 16), ASCII and high byte values.
PatternByte(seed, i) == ((seed * 5) + (37 * (i - 1))) % 256
Inputs == {[i \in 1 .. n |-> PatternByte(s, i)] : n \in 0 .. MaxLen, s \in 0 .. NumSeeds - 1}

\* ASCII code of one uppercase hexadecimal digit, as format!("{:X}") writes it.
HexDigit(n) == IF n < 10 THEN 48 + n ELSE 55 + n

\* format!("{:02X}", byte): two uppercase hexadecimal digits, zero padded.
format_X_unpadded(byte) ==
    IF byte < 16 THEN <<HexDigit(byte)>> ELSE <<HexDigit(byte \div 16), HexDigit(byte % 16)>>
format_02X(byte) == <<HexDigit(byte \div 16), HexDigit(byte % 16)>>

\* hex_encode: data.iter().enumerate().map(...).collect(): each byte gives its
\* two digits, followed by '\n' (10) when index % 35 = 34 (index from 0).
hex_encode_byte_breaking_first(index, byte) ==
    format_02X(byte) \o (IF index % 35 = 0 THEN <<10>> ELSE <<>>)
hex_encode_byte(index, byte) ==
    format_02X(byte) \o (IF index % 35 = 34 THEN <<10>> ELSE <<>>)

hex_encode(data) ==
    Flatten([i \in 1 .. Len(data) |-> hex_encode_byte(i - 1, data[i])])

\* Adler-32 of a byte sequence, as the pair (a, b) of its 16-bit halves:
\* a = 1 + the sum of the bytes, b = the sum of the successive values of a.
Adler(data) ==
    LET n == Len(data)
        a == (1 + SumRange(data, 1, n)) % 65521
        b == (n + SumRange([i \in 1 .. n |-> (n + 1 - i) * data[i]], 1, n)) % 65521
    IN <<a, b>>

\* deflate_encode: compress_to_vec_zlib(data, 6). The codec is an external
\* library; the model writes the zlib container it must produce (header, one
\* final stored block with LEN and NLEN, the data, the Adler-32 trailer).
deflate_encode(data) ==
    LET n == Len(data)
        ck == Adler(data)
    IN <<120, 1, 1, n % 256, n \div 256, 255 - (n % 256), 255 - (n \div 256)>>
       \o data
       \o <<ck[2] \div 256, ck[2] % 256, ck[1] \div 256, ck[1] % 256>>

\* StreamFilter::to_name
to_name(filter) ==
    CASE filter = "AsciiHex" -> "ASCIIHexDecode"
      [] filter = "Flate" -> "FlateDecode"
      [] filter = "Dct" -> "DCTDecode"

\* Mutation of can_apply: every filter is applied.
can_apply_every_filter(filter) == TRUE

\* StreamFilter::can_apply
can_apply(filter) ==
    CASE filter = "Flate" -> TRUE
      [] filter = "AsciiHex" -> TRUE
      [] filter = "Dct" -> FALSE

\* StreamFilter::apply; the Dct arm panics
apply(filter, data) ==
    CASE filter = "Flate" -> deflate_encode(data)
      [] filter = "AsciiHex" -> hex_encode(data)
      [] filter = "Dct" -> "panic"

\* The arm of StreamFilter::apply that is panic!("can't apply dct decode")
apply_panics(filter) == filter = "Dct"

\* StreamFilters, and StreamFilters::add
FiltersNone == [tag |-> "None"]
FiltersSingle(f) == [tag |-> "Single", filter |-> f]
FiltersMultiple(fs) == [tag |-> "Multiple", filters |-> fs]

filters_add(cur, stream_filter) ==
    CASE cur.tag = "None" -> FiltersSingle(stream_filter)
      [] cur.tag = "Single" -> FiltersMultiple(<<cur.filter, stream_filter>>)
      [] cur.tag = "Multiple" -> FiltersMultiple(Append(cur.filters, stream_filter))

\* FilterStream::empty
empty(data) == [content |-> data, filters |-> FiltersNone, panicked |-> FALSE]

\* FilterStream::add_filter; panicked tells that a call of apply panicked (the
\* stream is then never built, the content is left as it was).
add_filter(fs, filter) ==
    [content |-> IF can_apply(filter) /\ ~apply_panics(filter) /\ ~fs.panicked
                 THEN apply(filter, fs.content) ELSE fs.content,
     filters |-> filters_add(fs.filters, filter),
     panicked |-> fs.panicked \/ (can_apply(filter) /\ apply_panics(filter))]

\* FilterStream::new_from_content_stream
new_from_content_stream(data, settings) ==
    IF settings.compress_content_streams
    THEN IF settings.ascii_compatible
         THEN add_filter(add_filter(empty(data), "Flate"), "AsciiHex")
         ELSE add_filter(empty(data), "Flate")
    ELSE empty(data)

\* FilterStream::new_from_binary_data
new_from_binary_data(data, settings) ==
    IF settings.ascii_compatible
    THEN add_filter(add_filter(empty(data), "Flate"), "AsciiHex")
    ELSE add_filter(empty(data), "Flate")

\* FilterStream::new_from_jpeg_data
new_from_jpeg_data(data, settings) ==
    IF settings.ascii_compatible
    THEN add_filter(add_filter(empty(data), "Dct"), "AsciiHex")
    ELSE add_filter(empty(data), "Dct")

\* FilterStream::new_plain
new_plain(data, settings) ==
    IF settings.ascii_compatible
    THEN add_filter(empty(data), "AsciiHex")
    ELSE empty(data)

\* FilterStream::encoded_data
encoded_data(fs) == fs.content

\* FilterStream::write_filters: the value of the Filter entry, as the sequence
\* of names a reader sees (empty: no entry is written).
write_filters_unreversed(fs) ==
    CASE fs.filters.tag = "None" -> <<>>
      [] fs.filters.tag = "Single" -> <<to_name(fs.filters.filter)>>
      [] fs.filters.tag = "Multiple" ->
            [i \in 1 .. Len(fs.filters.filters) |-> to_name(fs.filters.filters[i])]
write_filters(fs) ==
    CASE fs.filters.tag = "None" -> <<>>
      [] fs.filters.tag = "Single" -> <<to_name(fs.filters.filter)>>
      [] fs.filters.tag = "Multiple" ->
            Reverse([i \in 1 .. Len(fs.filters.filters) |-> to_name(fs.filters.filters[i])])

\* The Filter entry of the stream dictionary: absent, one name, or an array
\* of names.
filter_entry(fs) ==
    [form |-> CASE fs.filters.tag = "None" -> "absent"
                [] fs.filters.tag = "Single" -> "name"
                [] fs.filters.tag = "Multiple" -> "array",
     names |-> write_filters(fs)]

FilterStart ==
    /\ fstream = NoneVal
    /\ finput \in Inputs
    /\ fsettings \in [compress_content_streams : BOOLEAN, ascii_compatible : BOOLEAN]
    /\ fctor = "none"
    /\ fdict = NoneVal

\* The filter variables while another component runs.
FilterIdle ==
    /\ fstream = NoneVal
    /\ finput = <<>>
    /\ fsettings = [compress_content_streams |-> FALSE, ascii_compatible |-> FALSE]
    /\ fctor = "none"
    /\ fdict = NoneVal

NewFromContentStream ==
    /\ fstream = NoneVal
    /\ fstream' = new_from_content_stream(finput, fsettings)
    /\ fctor' = "new_from_content_stream"
    /\ UNCHANGED <<finput, fsettings, fdict, mapperVars, cacheVars, finishVars, gstateVars>>

NewFromBinaryData ==
    /\ fstream = NoneVal
    /\ fstream' = new_from_binary_data(finput, fsettings)
    /\ fctor' = "new_from_binary_data"
    /\ UNCHANGED <<finput, fsettings, fdict, mapperVars, cacheVars, finishVars, gstateVars>>

NewFromJpegData ==
    /\ fstream = NoneVal
    /\ fstream' = new_from_jpeg_data(finput, fsettings)
    /\ fctor' = "new_from_jpeg_data"
    /\ UNCHANGED <<finput, fsettings, fdict, mapperVars, cacheVars, finishVars, gstateVars>>

NewPlain ==
    /\ fstream = NoneVal
    /\ fstream' = new_plain(finput, fsettings)
    /\ fctor' = "new_plain"
    /\ UNCHANGED <<finput, fsettings, fdict, mapperVars, cacheVars, finishVars, gstateVars>>

\* stream.write_filters(dict)
WriteFilters ==
    /\ fstream # NoneVal
    /\ fdict = NoneVal
    /\ fdict' = Some(filter_entry(fstream))
    /\ UNCHANGED <<fstream, finput, fsettings, fctor, mapperVars, cacheVars, finishVars, gstateVars>>

FilterNext ==
    \/ NewFromContentStream
    \/ NewFromBinaryData
    \/ NewFromJpegData
    \/ NewPlain
    \/ WriteFilters

----------------------------------------------------------------------------
(* SerializerContext (src/src/serialize.rs)                                *)

\* Bounds of the cache model: calls made on one context, the fonts and glyphs
\* handed to map_glyph, and the glyphs one Type3Font holds before it is full.
MaxAdds == 4
NumFonts == 2
NumGlyphs == 3
Type3Capacity == 2

\* Registerable objects. `fields` is what the derived Hash feeds the hasher:
\* the variant index of a unit enum, the fields of a struct (an Option as 0, or
\* 1 and its value). Two objects are structurally equal when type and fields
\* are equal. ColorSpace (serialize.rs:67-73) and PdfColorSpace
\* (resource.rs:103-107) are two unit enums with the variants SRGB, D65Gray.
SRGB == 0
D65Gray == 1
ColorSpaceObj(v) == [type |-> "ColorSpace", fields |-> <<v>>, mask |-> NoneVal]
PdfColorSpaceObj(v) == [type |-> "PdfColorSpace", fields |-> <<v>>, mask |-> NoneVal]
MaskObj == [type |-> "Mask", fields |-> <<2, 0>>, mask |-> NoneVal]
\* FontResource::new(font, index): the font's data (told apart from the small
\* discriminants above) and the index of the Type3 font
FontResourceObj(font, index) ==
    [type |-> "FontResource", fields |-> <<100 + font, index>>, mask |-> NoneVal]
\* ExtGState: Repr { non_stroking_alpha, stroking_alpha, blend_mode, mask }
ExtGStateObj(alpha, m) ==
    [type |-> "ExtGState",
     fields |-> (IF alpha THEN <<1, 5>> ELSE <<0>>) \o <<0, 0>>
                \o (IF m = NoneVal THEN <<0>> ELSE <<1>> \o m.val.fields),
     mask |-> m]

Objects ==
    {ColorSpaceObj(SRGB), ColorSpaceObj(D65Gray),
     PdfColorSpaceObj(SRGB), PdfColorSpaceObj(D65Gray), MaskObj}
    \cup {ExtGStateObj(a, m) : a \in BOOLEAN, m \in {NoneVal, Some(MaskObj)}}

\* hash_item: item.hash(&mut state); state.finish128(). The TypeId is not
\* hashed (serialize.rs:133), so the key is decided by the hashed fields alone;
\* SipHash-128 is taken to be collision free on them.
hash_item_with_type_id(item) == <<item.type>> \o item.fields
hash_item(item) == item.fields

\* The context as one value, for the operators below.
\* Ref::bump: hand out the current value, then advance by one.
new_ref_advancing_twice(st) ==
    [st EXCEPT !.ret = st.cur_ref, !.cur_ref = st.cur_ref + 2,
               !.nhist = Append(st.nhist, st.cur_ref)]
new_ref_not_advancing(st) ==
    [st EXCEPT !.ret = st.cur_ref, !.nhist = Append(st.nhist, st.cur_ref)]
new_ref(st) ==
    [st EXCEPT !.ret = st.cur_ref, !.cur_ref = st.cur_ref + 1,
               !.nhist = Append(st.nhist, st.cur_ref)]

\* chunk_mut().indirect(ref)...: one object written into the chunk
WriteObject(st, ref, refs) == [st EXCEPT !.chunk = Append(st.chunk, [ref |-> ref, refs |-> refs])]

RECURSIVE add(_, _)
RECURSIVE serialize_into(_, _, _)

\* Object::serialize_into(self, sc, root_ref), per object type
\*   SRGB (resource.rs:118-130): a fresh ref for the ICC profile, two objects
\*   D65Gray (resource.rs:131-137), Mask: one object at root_ref
\*   ExtGState (ext_g_state.rs:96-127): sc.add(mask) first, then one object
\*   FontResource: writes nothing, its reference is defined by the Type3 font
\*   that write_fonts serializes under it
serialize_into(st0, object, root_ref) ==
    LET st == [st0 EXCEPT !.produced = Append(st0.produced, object)] IN
    CASE object.type \in {"ColorSpace", "PdfColorSpace"} /\ object.fields = <<SRGB>> ->
            LET s1 == new_ref(st) IN
            WriteObject(WriteObject(s1, root_ref, <<s1.ret>>), s1.ret, <<>>)
      [] object.type = "ExtGState" /\ object.mask # NoneVal ->
            LET s1 == add(st, object.mask.val) IN
            WriteObject(s1, root_ref, <<s1.ret>>)
      [] object.type = "FontResource" -> st
      [] OTHER -> WriteObject(st, root_ref, <<>>)

\* What one add call did to the context `before`: an entry of ahist.
Called(before, after, object) ==
    <<object, after.ret, after.cur_ref - before.cur_ref,
      Len(after.produced) - Len(before.produced)>>

\* add, the hit: `*_ref`, the reference the cache holds
cache_hit_allocating(st, hash) == new_ref(st)
cache_hit(st, hash) == [st EXCEPT !.ret = st.cached_mappings[hash]]

\* SerializerContext::add
add(st, object) ==
    LET hash == hash_item(object) IN
    IF hash \in DOMAIN st.cached_mappings
    THEN LET s1 == cache_hit(st, hash)
         IN [s1 EXCEPT !.ahist = Append(s1.ahist, Called(st, s1, object))]
    ELSE LET s1 == new_ref(st)
             root_ref == s1.ret
             s2 == [s1 EXCEPT !.cached_mappings =
                       [h \in DOMAIN s1.cached_mappings \cup {hash} |->
                           IF h = hash THEN root_ref ELSE s1.cached_mappings[h]]]
             s3 == [serialize_into(s2, object, root_ref) EXCEPT !.ret = root_ref]
         IN [s3 EXCEPT !.ahist = Append(s3.ahist, Called(st, s3, object))]

\* Type3Font (object/type3_font.rs): the glyphs it holds, in the order they
\* were added; a glyph's position is its code.
covers(font, glyph_id) == \E i \in DOMAIN font : font[i] = glyph_id
is_full(font) == Len(font) >= Type3Capacity
type3_add(font, glyph_id) ==
    IF covers(font, glyph_id)
    THEN [font |-> font, gid |-> (CHOOSE i \in DOMAIN font : font[i] = glyph_id) - 1]
    ELSE [font |-> Append(font, glyph_id), gid |-> Len(font)]

\* Mutation of add_glyph: a glyph no font covers always opens a new font.
add_glyph_new_font_always(mapper, glyph_id) ==
    IF \E i \in DOMAIN mapper : covers(mapper[i], glyph_id)
    THEN LET index == CHOOSE i \in DOMAIN mapper : covers(mapper[i], glyph_id)
             a == type3_add(mapper[index], glyph_id)
         IN [fonts |-> mapper, index |-> index - 1, gid |-> a.gid]
    ELSE [fonts |-> Append(mapper, <<glyph_id>>), index |-> Len(mapper), gid |-> 0]

\* Mutation of add_glyph: the fonts are not searched for the glyph.
add_glyph_without_lookup(mapper, glyph_id) ==
    IF mapper # <<>> /\ ~is_full(Last(mapper))
    THEN [fonts |-> [mapper EXCEPT ![Len(mapper)] = Append(@, glyph_id)],
          index |-> Len(mapper) - 1, gid |-> Len(Last(mapper))]
    ELSE [fonts |-> Append(mapper, <<glyph_id>>), index |-> Len(mapper), gid |-> 0]

\* FontMapper::add_glyph on the Vec<Type3Font> of one font
add_glyph(mapper, glyph_id) ==
    IF \E i \in DOMAIN mapper : covers(mapper[i], glyph_id)
    THEN LET index == CHOOSE i \in DOMAIN mapper :
                          /\ covers(mapper[i], glyph_id)
                          /\ \A j \in 1..(i - 1) : ~covers(mapper[j], glyph_id)
             a == type3_add(mapper[index], glyph_id)
         IN [fonts |-> [mapper EXCEPT ![index] = a.font], index |-> index - 1, gid |-> a.gid]
    ELSE IF mapper # <<>> /\ ~is_full(Last(mapper))
    THEN LET a == type3_add(Last(mapper), glyph_id)
         IN [fonts |-> [mapper EXCEPT ![Len(mapper)] = a.font],
             index |-> Len(mapper) - 1, gid |-> a.gid]
    ELSE LET a == type3_add(<<>>, glyph_id)
         IN [fonts |-> Append(mapper, a.font), index |-> Len(mapper), gid |-> a.gid]

\* SerializerContext::map_glyph: the mapper of the font (a new one when the
\* font has none), then add_glyph; returns (FontResource(font, index), glyph)
map_glyph(st, font, glyph) ==
    LET font_mapper == IF font \in DOMAIN st.fonts THEN st.fonts[font] ELSE <<>>
        a == add_glyph(font_mapper, glyph)
    IN [st EXCEPT !.fonts = [f \in DOMAIN st.fonts \cup {font} |->
                                IF f = font THEN a.fonts ELSE st.fonts[f]],
                  !.ghist = [seen |-> @.seen \cup {<<font, glyph, a.index, a.gid>>},
                             last |-> <<font, glyph>>],
                  !.ret = [font_resource |-> <<font, a.index>>, glyph |-> a.gid]]

\* Type3Font::serialize_into(self, sc, root_ref): the font object is written
\* under root_ref.
type3_serialize_into(st, type3_font, root_ref) == WriteObject(st, root_ref, <<>>)

\* The inner loop of write_fonts: for (index, mapper) in
\* font_mapper.fonts.iter().enumerate()
RECURSIVE write_font_mapper(_, _, _, _)
write_font_mapper(st, font, font_mapper, index) ==
    IF index >= Len(font_mapper) THEN st
    ELSE LET s1 == add(st, FontResourceObj(font, index))
             ref_ == s1.ret
             s2 == type3_serialize_into(s1, font_mapper[index + 1], ref_)
         IN write_font_mapper(s2, font, font_mapper, index + 1)

\* SerializerContext::write_fonts: for (font, font_mapper) in
\* self.fonts.clone(), in the order the HashMap yields them
RECURSIVE write_fonts(_, _, _)
write_fonts(st, fonts_clone, order) ==
    IF order = <<>> THEN st
    ELSE write_fonts(write_font_mapper(st, Head(order), fonts_clone[Head(order)], 0),
                     fonts_clone, Tail(order))

\* The orders in which a HashMap can yield its keys.
IterationOrders(S) ==
    {o \in [1 .. Cardinality(S) -> S] : \A i, j \in DOMAIN o : i # j => o[i] # o[j]}

Context ==
    [cur_ref |-> cur_ref, cached_mappings |-> cached_mappings, chunk |-> sc_chunk,
     produced |-> produced, ahist |-> ahist, fonts |-> fonts, nhist |-> nhist,
     ghist |-> ghist, ret |-> aret]

SetContext(st, returned) ==
    /\ cur_ref' = st.cur_ref
    /\ cached_mappings' = st.cached_mappings
    /\ sc_chunk' = st.chunk
    /\ produced' = st.produced
    /\ ahist' = st.ahist
    /\ fonts' = st.fonts
    /\ nhist' = st.nhist
    /\ ghist' = st.ghist
    /\ aret' = returned

\* SerializerContext::new
CacheStart ==
    /\ cur_ref = 1
    /\ cached_mappings = <<>>
    /\ sc_chunk = <<>>
    /\ produced = <<>>
    /\ ahist = <<>>
    /\ fonts = <<>>
    /\ nhist = <<>>
    /\ ghist = [seen |-> {}, last |-> <<>>]
    /\ ncalls = 0
    /\ aret = NoneVal

\* sc.new_ref()
NewRef ==
    /\ ncalls < MaxAdds
    /\ ncalls' = ncalls + 1
    /\ LET st == new_ref(Context) IN SetContext(st, [ref |-> st.ret])
    /\ UNCHANGED <<mapperVars, filterVars, finishVars, gstateVars>>

\* sc.add(object)
Add(object) ==
    /\ ncalls < MaxAdds
    /\ ncalls' = ncalls + 1
    /\ LET st == add(Context, object) IN SetContext(st, [ref |-> st.ret])
    /\ UNCHANGED <<mapperVars, filterVars, finishVars, gstateVars>>

\* sc.map_glyph(font, glyph)
MapGlyph(font, glyph) ==
    /\ ncalls < MaxAdds
    /\ ncalls' = ncalls + 1
    /\ LET st == map_glyph(Context, font, glyph) IN SetContext(st, st.ret)
    /\ UNCHANGED <<mapperVars, filterVars, finishVars, gstateVars>>

\* sc.write_fonts()
WriteFonts ==
    /\ ncalls < MaxAdds
    /\ ncalls' = ncalls + 1
    /\ \E order \in IterationOrders(DOMAIN fonts) :
          LET st == write_fonts(Context, fonts, order) IN SetContext(st, NoneVal)
    /\ UNCHANGED <<mapperVars, filterVars, finishVars, gstateVars>>

\* Glyphs are mapped and the fonts written.
FontsNext ==
    \/ \E font \in 1..NumFonts : \E glyph \in 1..NumGlyphs : MapGlyph(font, glyph)
    \/ WriteFonts

CacheNext ==
    \/ NewRef
    \/ \E object \in Objects : Add(object)
    \/ \E font \in 1..NumFonts : \E glyph \in 1..NumGlyphs : MapGlyph(font, glyph)

----------------------------------------------------------------------------
(* ExtGState (src/src/object/ext_g_state.rs)                               *)

\* Bound: the operations made on the ExtGState values.
MaxOps == 5

\* struct Repr: four optional fields
ReprFields == {"non_stroking_alpha", "stroking_alpha", "blend_mode", "mask"}

\* Repr::default(): every field None
DefaultRepr == [f \in ReprFields |-> NoneVal]

\* Arc::strong_count: the values that point to the allocation
strong_count(g, a) == Cardinality({h \in DOMAIN g.egs : g.egs[h] = a})

\* Arc::new: the allocation a new Arc gets
NewArc(g) == CHOOSE a \in 1 .. Cardinality(DOMAIN g.arcs) + 1 :
                /\ a \notin DOMAIN g.arcs
                /\ \A b \in 1 .. a - 1 : b \in DOMAIN g.arcs

\* An allocation is freed when the last Arc that points to it is dropped.
Dropped(g) ==
    [g EXCEPT !.arcs = [a \in {b \in DOMAIN g.arcs : strong_count(g, b) > 0} |-> g.arcs[a]]]

\* Arc::make_mut(&mut self.0): the data is mutated in place when this is the
\* only Arc to it; otherwise it is cloned into a new allocation, to which the
\* value then points.
make_mut(g, h) ==
    IF strong_count(g, g.egs[h]) = 1 THEN g
    ELSE LET a == NewArc(g)
         IN [arcs |-> [b \in DOMAIN g.arcs \cup {a} |->
                         IF b = a THEN g.arcs[g.egs[h]] ELSE g.arcs[b]],
             egs |-> [g.egs EXCEPT ![h] = a]]

\* Arc::make_mut(&mut self.0).field = Some(value)
set_field(g, h, field, value) ==
    LET m == make_mut(g, h)
    IN [m EXCEPT !.arcs = [m.arcs EXCEPT ![m.egs[h]] = [@ EXCEPT ![field] = value]]]

\* ExtGState::empty
ext_g_state_empty(g, h) == \A f \in ReprFields : g.arcs[g.egs[h]][f] = NoneVal

\* Mutation of combine: a field that self has set is kept.
combine_keeping_self(g, self, other) ==
    LET step(gg, field) ==
            IF /\ gg.arcs[gg.egs[other]][field] # NoneVal
               /\ gg.arcs[gg.egs[self]][field] = NoneVal
            THEN set_field(gg, self, field, gg.arcs[gg.egs[other]][field])
            ELSE gg
    IN step(step(step(step(g, "stroking_alpha"), "non_stroking_alpha"), "blend_mode"), "mask")

\* ExtGState::combine(&mut self, other): the four `if let Some(..)` in turn
combine(g, self, other) ==
    LET step(gg, field) ==
            IF gg.arcs[gg.egs[other]][field] # NoneVal
            THEN set_field(gg, self, field, gg.arcs[gg.egs[other]][field])
            ELSE gg
    IN step(step(step(step(g, "stroking_alpha"), "non_stroking_alpha"), "blend_mode"), "mask")

GState == [arcs |-> arcs, egs |-> egs]

\* let self = ExtGState::new(); let other = ExtGState::new();
GStateStart ==
    /\ arcs = [a \in {1, 2} |-> DefaultRepr]
    /\ egs = [h \in {"self", "other"} |-> IF h = "self" THEN 1 ELSE 2]
    /\ gop = [op |-> "new", other |-> "", n |-> 0]

\* h = h.stroking_alpha(v), h.non_stroking_alpha(v), h.blend_mode(v) or
\* h.mask(v): self sets the value 1, other the value 2.
SetField(h, field) ==
    /\ gop.n < MaxOps
    /\ h \in DOMAIN egs
    /\ LET g == set_field(GState, h, field, Some(IF h = "self" THEN 1 ELSE 2))
       IN /\ arcs' = g.arcs
          /\ egs' = g.egs
    /\ gop' = [op |-> "set", other |-> "", n |-> gop.n + 1]
    /\ UNCHANGED <<mapperVars, filterVars, cacheVars, finishVars>>

\* let target = self.clone(): the Arc is cloned, the data is shared.
CloneSelf(target) ==
    /\ gop.n < MaxOps
    /\ LET g == Dropped([arcs |-> arcs,
                         egs |-> [h \in DOMAIN egs \cup {target} |->
                                    IF h = target THEN egs["self"] ELSE egs[h]]])
       IN /\ arcs' = g.arcs
          /\ egs' = g.egs
    /\ gop' = [op |-> "clone", other |-> "", n |-> gop.n + 1]
    /\ UNCHANGED <<mapperVars, filterVars, cacheVars, finishVars>>

\* self.combine(&other)
Combine(other) ==
    /\ gop.n < MaxOps
    /\ other \in DOMAIN egs
    /\ LET g == combine(GState, "self", other)
       IN /\ arcs' = g.arcs
          /\ egs' = g.egs
    /\ gop' = [op |-> "combine", other |-> other, n |-> gop.n + 1]
    /\ UNCHANGED <<mapperVars, filterVars, cacheVars, finishVars>>

GStateNext ==
    \/ \E h \in {"self", "other"} : \E field \in ReprFields : SetField(h, field)
    \/ \E target \in {"other", "clone"} : CloneSelf(target)
    \/ \E other \in {"other", "clone"} : Combine(other)

----------------------------------------------------------------------------
(* ChunkContainer (src/crates/krilla/src/chunk_container.rs)               *)

\* Bound of the document model: pages started by the author.
MaxPages == 2

\* Bounds of the container model: chunks authored into one container, and
\* objects in one embedded foreign chunk.
MaxChunks == 2
MaxForeign == 2

\* The fields of ChunkContainer, by type.
OptionFields ==
    {"page_tree", "outline", "page_label_tree", "destination_profiles", "struct_tree_root"}
PlainFields == {"struct_elements", "page_labels", "annotations", "fonts", "destinations"}
DeferredFields ==
    {"color_spaces", "icc_profiles", "ext_g_states", "masks", "x_objects",
     "shading_functions", "patterns", "pages", "embedded_files"}

\* impl Visit for ChunkContainer: the order in which the fields are visited.
VisitOrder ==
    <<"page_tree", "outline", "page_label_tree", "destination_profiles",
      "struct_tree_root", "struct_elements", "page_labels", "annotations", "fonts",
      "color_spaces", "icc_profiles", "destinations", "ext_g_states", "masks",
      "x_objects", "shading_functions", "patterns", "pages", "images",
      "embedded_files", "embedded_pdfs">>

\* A chunk is a sequence of objects; an object has the reference it defines
\* and the references written inside it, in order.
Obj(ref, refs) == [ref |-> ref, refs |-> refs]

\* Chunk::refs: the references the chunk defines, in order
ChunkRefs(chunk) == [i \in DOMAIN chunk |-> chunk[i].ref]

\* Every reference occurrence of a chunk, in the order renumber meets them.
Occurrences(chunk) == Flatten([i \in DOMAIN chunk |-> <<chunk[i].ref>> \o chunk[i].refs])

\* Chunk::renumber with a total mapping
RenumberWith(chunk, map) ==
    [i \in DOMAIN chunk |->
        Obj(map[chunk[i].ref], [j \in DOMAIN chunk[i].refs |-> map[chunk[i].refs[j]]])]

\* A slot of a container field. tag is "Chunk" (chunk holds it), "Err" (a failed
\* fragment, err holds the error) or "Pdf" (an EmbeddedPdfChunk: chunk is
\* original_chunk, mappings is root_ref_mappings). root is the Ref of an
\* Option<(Ref, Chunk)> field (0 elsewhere).
Slot(id, root, deferred, tag, chunk, err, mappings) ==
    [id |-> id, root |-> root, deferred |-> deferred, tag |-> tag,
     chunk |-> chunk, err |-> err, mappings |-> mappings]

\* ChunkContainer::new / default
EmptyContainer == [f \in Range(VisitOrder) |-> <<>>]

\* Mutation of Flat: the fields are visited pages first, the root fields last.
Flat_pages_first(c) ==
    LET order == <<"pages", "fonts", "color_spaces", "icc_profiles", "ext_g_states",
                   "masks", "x_objects", "shading_functions", "patterns", "images",
                   "embedded_files", "embedded_pdfs", "struct_tree_root",
                   "struct_elements", "annotations", "destinations", "page_tree",
                   "outline", "page_labels", "page_label_tree", "destination_profiles">>
    IN Flatten([i \in DOMAIN order |-> c[order[i]]])

\* The slots of a container in traversal order.
Flat(c) == Flatten([i \in DOMAIN VisitOrder |-> c[VisitOrder[i]]])

\* HashMap::insert
Put(map, k, v) == [x \in DOMAIN map \cup {k} |-> IF x = k THEN v ELSE map[x]]

\* ---- Metadata, signer and settings

\* Metadata, by which of its optional fields are set.
MetadataOf(title, authors, document_id, language, creation_date) ==
    [title |-> title, authors |-> authors, document_id |-> document_id,
     language |-> language, creation_date |-> creation_date]

Metadatas ==
    {MetadataOf(TRUE, TRUE, TRUE, TRUE, TRUE),
     MetadataOf(TRUE, TRUE, FALSE, TRUE, FALSE),
     MetadataOf(FALSE, FALSE, FALSE, FALSE, TRUE),
     MetadataOf(TRUE, FALSE, FALSE, TRUE, FALSE)}

\* The validator's answers that finish asks for.
DefaultValidator == [embedded_files |-> "IfAny", associated_files |-> TRUE]

write_embedded_files(validator, is_empty) ==
    CASE validator.embedded_files = "IfAny" -> ~is_empty
      [] validator.embedded_files = "Always" -> TRUE
      [] validator.embedded_files = "Never" -> FALSE

\* SerializeContext::new(settings), as far as finish reads it.
NewSerializeContext(xmp_metadata) ==
    [cur_ref |-> 1, xmp_metadata |-> xmp_metadata, signer |-> NoneVal,
     validator |-> DefaultValidator, named_destinations |-> {},
     embedded_files |-> <<>>, validation_errors |-> {}, page_infos |-> <<>>]

\* ---- Authoring: producers fill the container

TotalSlots == Len(Flat(container))

\* The references a new object holds: the one handed out just before it.
UsesOf(r) == IF r > 1 THEN <<r - 1>> ELSE <<>>

AuthoringFrame == UNCHANGED <<metadata, pc, cursor, remapper, remapped_ref, pdf, result,
                              seen1, seen2, remap_runs, overtaken, file_id, new_chunk,
                              task_done>>

\* An Option<(Ref, Chunk)> field is set: the root gets a fresh reference.
SetOptional(f) ==
    /\ pc = "authoring"
    /\ TotalSlots < MaxChunks
    /\ container[f] = <<>>
    /\ LET r == sc.cur_ref IN
        /\ container' = [container EXCEPT ![f] =
              <<Slot(TotalSlots + 1, r, FALSE, "Chunk", <<Obj(r, UsesOf(r))>>, 0, <<>>)>>]
        /\ sc' = [sc EXCEPT !.cur_ref = r + 1]
    /\ AuthoringFrame
    /\ UNCHANGED <<mapperVars, filterVars, cacheVars, gstateVars>>

\* A chunk is pushed to a Vec<Chunk> field.
PushChunk(f) ==
    /\ pc = "authoring"
    /\ TotalSlots < MaxChunks
    /\ f # "destinations"
    /\ LET r == sc.cur_ref IN
        /\ container' = [container EXCEPT ![f] = Append(@,
              Slot(TotalSlots + 1, 0, FALSE, "Chunk", <<Obj(r, UsesOf(r))>>, 0, <<>>))]
        /\ sc' = [sc EXCEPT !.cur_ref = r + 1]
    /\ AuthoringFrame
    /\ UNCHANGED <<mapperVars, filterVars, cacheVars, gstateVars>>

\* The stream data a producer may hand in: the bytes of the two markers, and
\* other bytes.
StreamDatas == {<<190, 239, 250, 206>>, <<136, 136, 136, 136>>, <<1, 2>>}

\* A chunk holding a stream is pushed: one object whose bytes are the encoded
\* data of the FilterStream built from the producer's data.
PushStream(data, ascii_compatible) ==
    /\ pc = "authoring"
    /\ TotalSlots < MaxChunks
    /\ LET r == sc.cur_ref
           settings == [compress_content_streams |-> FALSE,
                        ascii_compatible |-> ascii_compatible]
       IN
        /\ container' = [container EXCEPT !["x_objects"] = Append(@,
              Slot(TotalSlots + 1, 0, FALSE, "Chunk",
                   <<[ref |-> r, refs |-> <<>>,
                      bytes |-> encoded_data(new_plain(data, settings))]>>, 0, <<>>))]
        /\ sc' = [sc EXCEPT !.cur_ref = r + 1]
    /\ AuthoringFrame
    /\ UNCHANGED <<mapperVars, filterVars, cacheVars, gstateVars>>

\* The names a named destination can take.
Names == {1, 2}
DestinationNames == {1, 2, 3}

\* A destination chunk is pushed and registered as a named destination under
\* a name not yet taken.
PushDestination(name) ==
    /\ pc = "authoring"
    /\ TotalSlots < MaxChunks
    /\ \A d \in sc.named_destinations : d[1] # name
    /\ LET r == sc.cur_ref IN
        /\ container' = [container EXCEPT !["destinations"] = Append(@,
              Slot(TotalSlots + 1, 0, FALSE, "Chunk", <<Obj(r, UsesOf(r))>>, 0, <<>>))]
        /\ sc' = [sc EXCEPT !.cur_ref = r + 1,
                            !.named_destinations = @ \cup {<<name, r>>}]
    /\ AuthoringFrame
    /\ UNCHANGED <<mapperVars, filterVars, cacheVars, gstateVars>>

\* A second name is registered for a destination that has one: the HashMap
\* of named destinations gets another key with the reference of that
\* destination.
PushDestinationSharing(name) ==
    /\ pc = "authoring"
    /\ \A d \in sc.named_destinations : d[1] # name
    /\ \E d \in sc.named_destinations :
          sc' = [sc EXCEPT !.named_destinations = @ \cup {<<name, d[2]>>}]
    /\ UNCHANGED container
    /\ AuthoringFrame
    /\ UNCHANGED <<mapperVars, filterVars, cacheVars, gstateVars>>

\* A deferred chunk is pushed to a Vec<Deferred<Chunk>> field; its background
\* task is outstanding. A colour space holds two objects (the array and its
\* ICC stream); an embedded file is also registered under its name.
PushDeferred(f) ==
    /\ pc = "authoring"
    /\ TotalSlots < MaxChunks
    /\ LET r == sc.cur_ref
           two == f = "color_spaces"
           chunk == IF two THEN <<Obj(r, <<r + 1>>), Obj(r + 1, <<>>)>>
                    ELSE <<Obj(r, UsesOf(r))>>
       IN
        /\ container' = [container EXCEPT ![f] = Append(@,
              Slot(TotalSlots + 1, 0, TRUE, "Chunk", chunk, 0, <<>>))]
        /\ sc' = [sc EXCEPT !.cur_ref = IF two THEN r + 2 ELSE r + 1,
                            !.embedded_files =
                                IF f = "embedded_files" THEN Append(@, <<r, r>>) ELSE @]
    /\ AuthoringFrame
    /\ UNCHANGED <<mapperVars, filterVars, cacheVars, gstateVars>>

\* An image is registered: Deferred<KrillaResult<Chunk>>, which fails or not.
PushImage(ok) ==
    /\ pc = "authoring"
    /\ TotalSlots < MaxChunks
    /\ LET r == sc.cur_ref IN
        /\ container' = [container EXCEPT !["images"] = Append(@,
              IF ok THEN Slot(TotalSlots + 1, 0, TRUE, "Chunk", <<Obj(r, UsesOf(r))>>, 0, <<>>)
              ELSE Slot(TotalSlots + 1, 0, TRUE, "Err", <<>>, TotalSlots + 1, <<>>))]
        /\ sc' = [sc EXCEPT !.cur_ref = r + 1]
    /\ AuthoringFrame
    /\ UNCHANGED <<mapperVars, filterVars, cacheVars, gstateVars>>

\* A foreign document is embedded: its chunk holds m objects numbered 1..m in
\* the foreign document, each referring to the next one; the last k of them
\* are pinned to host references handed out now.
PushEmbeddedPdf(m, k) ==
    /\ pc = "authoring"
    /\ TotalSlots < MaxChunks
    /\ LET r == sc.cur_ref
           original_chunk == [i \in 1 .. m |-> Obj(i, <<(i % m) + 1>>)]
           root_ref_mappings == [i \in (m - k + 1) .. m |-> r + (i - (m - k + 1))]
       IN
        /\ container' = [container EXCEPT !["embedded_pdfs"] = Append(@,
              Slot(TotalSlots + 1, 0, TRUE, "Pdf", original_chunk, 0, root_ref_mappings))]
        /\ sc' = [sc EXCEPT !.cur_ref = r + k]
    /\ AuthoringFrame
    /\ UNCHANGED <<mapperVars, filterVars, cacheVars, gstateVars>>

\* A foreign document whose extraction fails.
PushFailedPdf ==
    /\ pc = "authoring"
    /\ TotalSlots < MaxChunks
    /\ container' = [container EXCEPT !["embedded_pdfs"] = Append(@,
          Slot(TotalSlots + 1, 0, TRUE, "Err", <<>>, TotalSlots + 1, <<>>))]
    /\ sc' = [sc EXCEPT !.cur_ref = @ + 1]
    /\ AuthoringFrame
    /\ UNCHANGED <<mapperVars, filterVars, cacheVars, gstateVars>>

\* ---- Producers that break the rule that every reference handed out is
\* defined by exactly one chunk

\* A producer registers a slot with the container and leaves the context
\* with the given next reference and global objects.
Produce(f, slot, next_ref, named, files) ==
    /\ pc = "authoring"
    /\ TotalSlots < MaxChunks
    /\ container' = [container EXCEPT ![f] = Append(@, slot)]
    /\ sc' = [sc EXCEPT !.cur_ref = next_ref,
                        !.named_destinations = @ \cup named,
                        !.embedded_files = @ \o files]
    /\ AuthoringFrame
    /\ UNCHANGED <<mapperVars, filterVars, cacheVars, gstateVars>>

\* A chunk that defines a reference that was handed out before.
PushChunkReusing(f, r) ==
    /\ r \in 1 .. (sc.cur_ref - 1)
    /\ Produce(f, Slot(TotalSlots + 1, 0, FALSE, "Chunk", <<Obj(r, <<>>)>>, 0, <<>>),
               sc.cur_ref, {}, <<>>)

\* A chunk that refers to a reference no chunk defines.
PushChunkDangling(f) ==
    /\ f # "destinations"
    /\ Produce(f, Slot(TotalSlots + 1, 0, FALSE, "Chunk",
                       <<Obj(sc.cur_ref, <<sc.cur_ref + 1>>)>>, 0, <<>>),
               sc.cur_ref + 2, {}, <<>>)

\* A root field whose Ref is not the one its chunk defines.
SetOptionalDangling(f) ==
    /\ container[f] = <<>>
    /\ Produce(f, Slot(TotalSlots + 1, sc.cur_ref + 1, FALSE, "Chunk",
                       <<Obj(sc.cur_ref, <<>>)>>, 0, <<>>),
               sc.cur_ref + 2, {}, <<>>)

\* A named destination registered under a reference no chunk defines.
PushDestinationDangling(name) ==
    /\ \A d \in sc.named_destinations : d[1] # name
    /\ Produce("destinations",
               Slot(TotalSlots + 1, 0, FALSE, "Chunk", <<Obj(sc.cur_ref, <<>>)>>, 0, <<>>),
               sc.cur_ref + 2, {<<name, sc.cur_ref + 1>>}, <<>>)

\* An embedded file registered under a reference no chunk defines.
PushEmbeddedFileDangling ==
    /\ \A i \in DOMAIN sc.embedded_files : sc.embedded_files[i][1] # sc.cur_ref
    /\ Produce("embedded_files",
               Slot(TotalSlots + 1, 0, TRUE, "Chunk", <<Obj(sc.cur_ref, <<>>)>>, 0, <<>>),
               sc.cur_ref + 2, {}, <<<<sc.cur_ref, sc.cur_ref + 1>>>>)

\* Document::set_metadata
SetMetadata(m) ==
    /\ pc = "authoring"
    /\ metadata = NoneVal
    /\ metadata' = Some(m)
    /\ UNCHANGED <<container, task_done, new_chunk, sc, pc, cursor, remapper,
                   remapped_ref, pdf, result, seen1, seen2, remap_runs, overtaken, file_id>>
    /\ UNCHANGED <<mapperVars, filterVars, cacheVars, gstateVars>>

\* Document::set_signer
SetSigner ==
    /\ pc = "authoring"
    /\ sc.signer = NoneVal
    /\ sc' = [sc EXCEPT !.signer = Some("PdfSig")]
    /\ UNCHANGED <<container, task_done, new_chunk, metadata, pc, cursor, remapper,
                   remapped_ref, pdf, result, seen1, seen2, remap_runs, overtaken, file_id>>
    /\ UNCHANGED <<mapperVars, filterVars, cacheVars, gstateVars>>

\* A started Page is finished: its chunk is pushed to the pages of the
\* container under a fresh reference and its PageInfo is recorded.
register_page(c, s, page_settings) ==
    LET r == s.cur_ref IN
    [container |-> [c EXCEPT !["pages"] = Append(@,
                       Slot(Len(Flat(c)) + 1, 0, TRUE, "Chunk", <<Obj(r, <<>>)>>, 0, <<>>))],
     sc |-> [s EXCEPT !.cur_ref = r + 1,
                      !.page_infos = Append(@, [ref |-> r, settings |-> page_settings])]]

\* Document::start_page (PageSettings::default()) and start_page_with, up to
\* the end of the page they return.
StartPage(page_settings) ==
    /\ pc = "authoring"
    /\ Len(sc.page_infos) < MaxPages
    /\ LET d == register_page(container, sc, page_settings) IN
        /\ container' = d.container
        /\ sc' = d.sc
    /\ AuthoringFrame
    /\ UNCHANGED <<mapperVars, filterVars, cacheVars, gstateVars>>

\* SerializeContext::finish, before it hands the container to
\* ChunkContainer::finish: the page tree is written, its kids the pages.
serialize_page_tree(c, s) ==
    LET r == s.cur_ref
        kids == [i \in DOMAIN s.page_infos |-> s.page_infos[i].ref]
    IN [container |-> [c EXCEPT !["page_tree"] =
                          <<Slot(Len(Flat(c)) + 1, r, FALSE, "Chunk", <<Obj(r, kids)>>, 0, <<>>)>>],
        sc |-> [s EXCEPT !.cur_ref = r + 1]]

\* Document::finish: `if self.serializer_context.page_infos().is_empty()`
needs_default_page_never(page_infos) == FALSE
needs_default_page(page_infos) == page_infos = <<>>

\* Document::finish, up to the entry of ChunkContainer::finish.
DocumentFinish ==
    /\ pc = "authoring"
    /\ LET d1 == IF needs_default_page(sc.page_infos)
                 THEN register_page(container, sc, "default")
                 ELSE [container |-> container, sc |-> sc]
           d2 == serialize_page_tree(d1.container, d1.sc)
       IN /\ container' = d2.container
          /\ sc' = d2.sc
    /\ pc' = "pass1"
    /\ cursor' = 1
    /\ remapped_ref' = 1
    /\ remapper' = <<>>
    /\ pdf' = <<>>
    /\ UNCHANGED <<task_done, new_chunk, metadata, result, seen1, seen2,
                   remap_runs, overtaken, file_id>>
    /\ UNCHANGED <<mapperVars, filterVars, cacheVars, gstateVars>>

\* The background task of a Deferred slot completes.
TaskComplete(id) ==
    /\ pc # "done"
    /\ \E i \in DOMAIN Flat(container) :
          Flat(container)[i].id = id /\ Flat(container)[i].deferred
    /\ id \notin task_done
    /\ task_done' = task_done \cup {id}
    /\ overtaken' = (overtaken \/ \E i, j \in DOMAIN Flat(container) :
                        /\ i < j
                        /\ Flat(container)[j].id = id
                        /\ Flat(container)[i].deferred
                        /\ Flat(container)[i].id \notin task_done)
    /\ UNCHANGED <<container, new_chunk, sc, metadata, pc, cursor, remapper,
                   remapped_ref, pdf, result, seen1, seen2, remap_runs, file_id>>
    /\ UNCHANGED <<mapperVars, filterVars, cacheVars, gstateVars>>

\* ---- Visit

\* The outcome of finish: nothing yet, Ok(pdf), Err(e), or a panic.
NoResult == [tag |-> "None", err |-> 0]
OkResult == [tag |-> "Ok", err |-> 0]
ErrResult(e) == [tag |-> "Err", err |-> e]
PanicResult == [tag |-> "Panic", err |-> 0]

\* Mutation of remap_entries: a fresh reference per occurrence, no look-up.
RECURSIVE remap_entries_no_lookup(_, _, _)
remap_entries_no_lookup(occ, map, cur) ==
    IF occ = <<>> THEN [map |-> map, cur |-> cur]
    ELSE remap_entries_no_lookup(Tail(occ), Put(map, Head(occ), cur), cur + 1)

\* The closure of the local remap applied to the occurrences in order:
\* *remapper.entry(old).or_insert_with(|| sc.new_ref())
RECURSIVE remap_entries(_, _, _)
remap_entries(occ, map, cur) ==
    IF occ = <<>> THEN [map |-> map, cur |-> cur]
    ELSE IF Head(occ) \in DOMAIN map
         THEN remap_entries(Tail(occ), map, cur)
         ELSE remap_entries(Tail(occ), Put(map, Head(occ), cur), cur + 1)

\* Mutation of local_remap: the references the closure took from the
\* context are handed out again afterwards.
local_remap_counter_kept(slot, cur) ==
    LET r == remap_entries(Occurrences(slot.chunk), slot.mappings, cur)
    IN [chunk |-> RenumberWith(slot.chunk, r.map), cur |-> cur]

\* The initializer of new_chunk: remapper starts as a clone of
\* root_ref_mappings, original_chunk is renumbered through it.
local_remap(slot, cur) ==
    LET r == remap_entries(Occurrences(slot.chunk), slot.mappings, cur)
    IN [chunk |-> RenumberWith(slot.chunk, r.map), cur |-> r.cur]

\* Mutation of get_or_init: the initializer runs at every call.
get_or_init_always(cells, slot, cur) ==
    LET r == local_remap(slot, cur)
    IN [chunk |-> r.chunk, cells |-> Put(cells, slot.id, r.chunk), cur |-> r.cur,
        ran |-> TRUE]

\* OnceLock::get_or_init on the new_chunk cell of an EmbeddedPdfChunk
get_or_init(cells, slot, cur) ==
    IF slot.id \in DOMAIN cells
    THEN [chunk |-> cells[slot.id], cells |-> cells, cur |-> cur, ran |-> FALSE]
    ELSE LET r == local_remap(slot, cur)
         IN [chunk |-> r.chunk, cells |-> Put(cells, slot.id, r.chunk), cur |-> r.cur,
             ran |-> TRUE]

\* Mutations of wait: it returns whether or not the task has completed; it
\* never returns.
wait_returning_at_once(slot, done) == [ready |-> TRUE, value |-> slot]
wait_never_returning(slot, done) == [ready |-> FALSE, value |-> slot]

\* Deferred::wait: the value once the background task has completed.
wait(slot, done) == [ready |-> slot.id \in done, value |-> slot]

\* Mutation of deferred_visit: a slot whose task is outstanding is passed over.
deferred_visit_no_wait(slot, done) ==
    IF slot.id \in done THEN [ready |-> TRUE, value |-> slot]
    ELSE [ready |-> TRUE, value |-> [slot EXCEPT !.tag = "Chunk", !.chunk = <<>>]]

\* impl Visit for Deferred<T>: self.wait().visit(sc, f)
deferred_visit(slot, done) == wait(slot, done)

\* Mutation of result_visit: a failed fragment is passed over.
result_visit_skip(value) == NoneVal

\* impl Visit for KrillaResult<T>: the `?` returns a clone of the error.
result_visit(value) == IF value.tag = "Err" THEN Some(value.err) ELSE NoneVal

\* visit of one slot: whether the traversal can proceed, the error it returns
\* early with, and the chunk handed to the closure f.
visit_slot(slot, cells, cur, done) ==
    LET w == IF slot.deferred THEN deferred_visit(slot, done)
             ELSE [ready |-> TRUE, value |-> slot]
        e == result_visit(w.value)
        g == IF w.value.tag = "Pdf" THEN get_or_init(cells, w.value, cur)
             ELSE [chunk |-> IF w.value.tag = "Chunk" THEN w.value.chunk ELSE <<>>,
                   cells |-> cells, cur |-> cur, ran |-> FALSE]
    IN [ready |-> w.ready, err |-> e, chunk |-> g.chunk, cells |-> g.cells,
        cur |-> g.cur, ran |-> g.ran /\ w.ready /\ e = NoneVal]

\* Mutation of pass1_closure: one bump per chunk.
pass1_closure_bump_per_chunk(chunk, map, next) ==
    [remapper |-> [r \in DOMAIN map \cup Range(ChunkRefs(chunk)) |->
                      IF r \in Range(ChunkRefs(chunk)) THEN next ELSE map[r]],
     remapped_ref |-> next + 1,
     dup |-> FALSE]

\* Mutation of pass1_closure: the last reference of a chunk is numbered
\* without advancing the counter.
pass1_closure_last_not_bumped(chunk, map, next) ==
    [remapper |-> [r \in DOMAIN map \cup Range(ChunkRefs(chunk)) |->
                      IF \E i \in DOMAIN chunk : chunk[i].ref = r
                      THEN next - 1 + (CHOOSE i \in DOMAIN chunk : chunk[i].ref = r)
                      ELSE map[r]],
     remapped_ref |-> IF chunk = <<>> THEN next ELSE next + Len(chunk) - 1,
     dup |-> FALSE]

RECURSIVE pass1_insert(_, _, _, _)
pass1_insert(refs, map, next, dup) ==
    IF refs = <<>> THEN [remapper |-> map, remapped_ref |-> next, dup |-> dup]
    ELSE pass1_insert(Tail(refs), Put(map, Head(refs), next), next + 1,
                      dup \/ Head(refs) \in DOMAIN map)

\* The closure of pass 1: for object_ref in chunk.refs() the remapper gets
\* object_ref -> remapped_ref.bump(); dup tells that the debug_assert fails.
pass1_closure(chunk, map, next) == pass1_insert(ChunkRefs(chunk), map, next, FALSE)

\* An object of the output: what it is, the reference it defines, and the
\* references written inside it, each under its key.
Entry(key, name, ref) == [key |-> key, name |-> name, ref |-> ref]
PdfObj(kind, ref, entries) == [kind |-> kind, ref |-> ref, entries |-> entries]

\* Mutation of pass2_closure: a reference the mapping does not hold is
\* written as it is.
pass2_closure_keeping_unmapped(chunk, map) ==
    LET m(r) == IF r \in DOMAIN map THEN map[r] ELSE r
    IN Some([i \in DOMAIN chunk |->
               [kind |-> "chunk", ref |-> m(chunk[i].ref),
                entries |-> [j \in DOMAIN chunk[i].refs |->
                                [key |-> "R", name |-> 0, ref |-> m(chunk[i].refs[j])]]]])

\* The closure of pass 2: chunk.renumber_into(&mut pdf, |old| remapper[&old]).
\* Indexing the remapper with a reference it does not hold panics.
pass2_closure(chunk, map) ==
    IF \A r \in Range(Occurrences(chunk)) : r \in DOMAIN map
    THEN Some([i \in DOMAIN chunk |->
                 LET o == PdfObj("chunk", map[chunk[i].ref],
                                 [j \in DOMAIN chunk[i].refs |->
                                     Entry("R", 0, map[chunk[i].refs[j]])])
                 IN IF "bytes" \in DOMAIN chunk[i]
                    THEN [kind |-> o.kind, ref |-> o.ref, entries |-> o.entries,
                          bytes |-> chunk[i].bytes]
                    ELSE o])
    ELSE NoneVal

\* Mutation of AfterSlot: the container is traversed once.
AfterSlot_single_pass(phase, c) ==
    IF c < TotalSlots THEN [pc |-> phase, cursor |-> c + 1]
    ELSE [pc |-> "assemble", cursor |-> 1]

\* Where the traversal goes after the slot at the cursor.
AfterSlot(phase, c) ==
    IF c < TotalSlots THEN [pc |-> phase, cursor |-> c + 1]
    ELSE IF phase = "pass1" THEN
        [pc |-> IF TotalSlots = 0 THEN "assemble" ELSE "pass2", cursor |-> 1]
    ELSE [pc |-> "assemble", cursor |-> 1]

Bump(runs, id) == Put(runs, id, IF id \in DOMAIN runs THEN runs[id] + 1 ELSE 1)

\* ChunkContainer::finish is entered.
StartFinish ==
    /\ pc = "authoring"
    /\ pc' = AfterSlot("pass1", 0).pc
    /\ cursor' = 1
    /\ remapped_ref' = 1
    /\ remapper' = <<>>
    /\ pdf' = <<>>
    /\ UNCHANGED <<container, task_done, new_chunk, sc, metadata, result, seen1, seen2,
                   remap_runs, overtaken, file_id>>
    /\ UNCHANGED <<mapperVars, filterVars, cacheVars, gstateVars>>

\* Pass 1 visits the slot at the cursor.
Pass1Visit ==
    /\ pc = "pass1"
    /\ LET slot == Flat(container)[cursor]
           v == visit_slot(slot, new_chunk, sc.cur_ref, task_done)
           c == pass1_closure(v.chunk, remapper, remapped_ref)
       IN
        /\ v.ready
        /\ seen1' = Append(seen1, <<slot.id, v.chunk>>)
        /\ IF v.err # NoneVal
           THEN /\ result' = ErrResult(v.err.val)
                /\ pc' = "done"
                /\ UNCHANGED <<cursor, remapper, remapped_ref, new_chunk, sc, remap_runs>>
           ELSE /\ new_chunk' = v.cells
                /\ sc' = [sc EXCEPT !.cur_ref = v.cur]
                /\ remap_runs' = IF v.ran THEN Bump(remap_runs, slot.id) ELSE remap_runs
                /\ remapper' = c.remapper
                /\ remapped_ref' = c.remapped_ref
                /\ \/ /\ pc' = AfterSlot("pass1", cursor).pc
                      /\ cursor' = AfterSlot("pass1", cursor).cursor
                      /\ result' = result
                   \/ /\ c.dup
                      /\ pc' = "done"
                      /\ cursor' = cursor
                      /\ result' = PanicResult
    /\ UNCHANGED <<container, task_done, metadata, pdf, seen2, overtaken, file_id>>
    /\ UNCHANGED <<mapperVars, filterVars, cacheVars, gstateVars>>

\* Pass 2 visits the slot at the cursor and writes its chunk.
Pass2Visit ==
    /\ pc = "pass2"
    /\ LET slot == Flat(container)[cursor]
           v == visit_slot(slot, new_chunk, sc.cur_ref, task_done)
           w == pass2_closure(v.chunk, remapper)
       IN
        /\ v.ready
        /\ seen2' = Append(seen2, <<slot.id, v.chunk>>)
        /\ IF v.err # NoneVal
           THEN /\ result' = ErrResult(v.err.val)
                /\ pc' = "done"
                /\ UNCHANGED <<cursor, pdf, new_chunk, sc, remap_runs>>
           ELSE /\ new_chunk' = v.cells
                /\ sc' = [sc EXCEPT !.cur_ref = v.cur]
                /\ remap_runs' = IF v.ran THEN Bump(remap_runs, slot.id) ELSE remap_runs
                /\ IF w = NoneVal
                   THEN /\ result' = PanicResult
                        /\ pc' = "done"
                        /\ UNCHANGED <<cursor, pdf>>
                   ELSE /\ pdf' = pdf \o w.val
                        /\ pc' = AfterSlot("pass2", cursor).pc
                        /\ cursor' = AfterSlot("pass2", cursor).cursor
                        /\ result' = result
    /\ UNCHANGED <<container, task_done, metadata, remapper, remapped_ref, seen1,
                   overtaken, file_id>>
    /\ UNCHANGED <<mapperVars, filterVars, cacheVars, gstateVars>>

\* ---- Catalog, metadata and signature (finish after the two passes)

Has(f) == container[f] # <<>>
OptRoot(f) == container[f][1].root
Opt(cond, seq) == IF cond THEN seq ELSE <<>>

\* Metadata::serialize_document_info: the info dictionary takes one bumped
\* reference.
serialize_document_info(next) ==
    [objs |-> <<PdfObj("info", next, <<>>)>>, next |-> next + 1]

\* hash_base64: a hash of the data as text; equal data give equal text and
\* different data are taken to give different text.
hash_base64(data) == [hash_base64 |-> data]

\* The document id that finish derives from the metadata, falling back to
\* the instance id.
document_id_of(md, instance_id) ==
    IF md # NoneVal
    THEN IF md.val.document_id
         THEN hash_base64(<<"pdf_version", "document_id">>)
         ELSE IF md.val.title /\ md.val.authors
              THEN hash_base64(<<"pdf_version", "title", "authors">>)
              ELSE instance_id
    ELSE instance_id

\* sorted.sort_by(|a, b| a.1.cmp(&b.1)) on the entries of the HashMap of named
\* destinations: every order of the (name, ref) pairs that ascends by ref.
SortedByRef(S) ==
    {s \in [1 .. Cardinality(S) -> S] :
        /\ \A i, j \in DOMAIN s : i # j => s[i] # s[j]
        /\ \A i, j \in DOMAIN s : i < j => s[i][2] <= s[j][2]}

\* ---- The ByteRange placeholder of the signature dictionary

\* The number written four times as the ByteRange placeholder.
ByteRangeMark == 88888888

\* The f32 nearest to a natural number below 2^28 (Rect holds f32; ties go
\* to the even significand).
to_f32(n) ==
    LET u == IF n < 16777216 THEN 1
             ELSE IF n < 33554432 THEN 2
             ELSE IF n < 67108864 THEN 4
             ELSE IF n < 134217728 THEN 8 ELSE 16
        q == n \div u
        r == n % u
    IN IF 2 * r < u THEN q * u
       ELSE IF 2 * r > u THEN (q + 1) * u
       ELSE IF q % 2 = 0 THEN q * u ELSE (q + 1) * u

\* pdf_writer's rendering of an f32 that holds an integer: its decimal digits.
write_float(v) == ToDecimal(v)

\* Mutation of write_rect: every number is written with a fraction digit.
write_rect_with_fraction(x1, y1, x2, y2) ==
    <<"[">> \o write_float(to_f32(x1)) \o <<".", "0", " ">>
            \o write_float(to_f32(y1)) \o <<".", "0", " ">>
            \o write_float(to_f32(x2)) \o <<".", "0", " ">>
            \o write_float(to_f32(y2)) \o <<".", "0", "]">>

\* pdf_writer::Rect::new(x1, y1, x2, y2) written as an object: [x1 y1 x2 y2]
write_rect(x1, y1, x2, y2) ==
    <<"[">> \o write_float(to_f32(x1)) \o <<" ">>
            \o write_float(to_f32(y1)) \o <<" ">>
            \o write_float(to_f32(x2)) \o <<" ">>
            \o write_float(to_f32(y2)) \o <<"]">>

\* ---- The Contents placeholder of the signature dictionary

\* The length of sig_contents (11110 in finish), cut down.
SigContentsLen == 6

\* let mut sig_contents = [0u8; 11110]; sig_contents[0..4] = BE EF FA CE
sig_contents ==
    [i \in 1 .. SigContentsLen |->
        CASE i = 1 -> 190 [] i = 2 -> 239 [] i = 3 -> 250 [] i = 4 -> 206 [] OTHER -> 0]

\* A byte of the output as a character: the hexadecimal digits and the line
\* feed as themselves, any other byte as "."
AsChar(code) ==
    IF code >= 48 /\ code <= 57 THEN DigitChar(code - 48)
    ELSE IF code >= 65 /\ code <= 70
         THEN <<"A", "B", "C", "D", "E", "F">>[code - 64]
    ELSE IF code = 10 THEN "\n" ELSE "."
AsText(bytes) == [i \in DOMAIN bytes |-> AsChar(bytes[i])]

\* pdf_writer's Str of bytes that are not all ASCII: '<BEEFFACE00..00>'
write_str(bytes) ==
    <<"<">> \o AsText(Flatten([i \in DOMAIN bytes |-> format_02X(bytes[i])])) \o <<">">>

\* The widest offsets and length the placeholder is prepared for, in digits:
\* '[0 0123456789 0123456789a 0123456789]'
OffsetDigits == 10
LengthDigits == 11

\* The decimal texts of the numbers a post-processing step may write: the
\* shortest and the widest of at most n digits.
OffsetTexts(n) == {<<"0">>, [i \in 1 .. n |-> "9"]}

\* The real descriptor '[0 a b c]'
descriptor(a, b, c) ==
    <<"[", "0", " ">> \o a \o <<" ">> \o b \o <<" ">> \o c \o <<"]">>

\* Overwriting a placeholder in place: the text, then blanks up to the width
\* of the placeholder; a longer text takes the room it needs.
overwrite_in_place(old, new) ==
    IF Len(new) <= Len(old) THEN new \o [i \in 1 .. (Len(old) - Len(new)) |-> " "]
    ELSE new

\* Mutation of missing_title: the title is never reported missing.
missing_title_never(md) == FALSE

\* self.metadata.as_ref().is_none_or(|m| m.title.is_none())
missing_title(md) == md = NoneVal \/ ~md.val.title

\* Mutation of has_language: a document with metadata counts as having one.
has_language_with_metadata(md) == md # NoneVal

\* self.metadata.as_ref().and_then(|m| m.language.as_ref()) is Some
has_language(md) == md # NoneVal /\ md.val.language

\* Mutation of has_catalog: only the page tree counts.
has_catalog_page_tree_only(c) == c["page_tree"] # <<>>

\* The condition under which a catalog is written.
has_catalog(c) == \E f \in OptionFields : c[f] # <<>>

\* Mutation of signature_requested: the creation date is not asked for.
signature_requested_without_date(signer, md, c) ==
    signer # NoneVal /\ c["page_tree"] # <<>>

\* if let (Some(sig), Some(date_pdf), Some(pt)) =
\*     (sc.signer, metadata.and_then(|meta| meta.creation_date), &self.page_tree)
signature_requested(signer, md, c) ==
    /\ signer # NoneVal
    /\ md # NoneVal /\ md.val.creation_date
    /\ c["page_tree"] # <<>>

\* The rest of finish: validation errors, document info, metadata stream,
\* catalog, signature widget and signature dictionary.
Assemble ==
    /\ pc = "assemble"
    /\ \E order \in SortedByRef(sc.named_destinations) :
        LET has_md == metadata # NoneVal
            info == IF has_md THEN serialize_document_info(remapped_ref)
                    ELSE [objs |-> <<>>, next |-> remapped_ref]
            instance_id == hash_base64(pdf \o info.objs)
            document_id == document_id_of(metadata, instance_id)
            xmp == [kind |-> "metadata", ref |-> info.next, entries |-> <<>>,
                    instance_id |-> instance_id, document_id |-> document_id]
            catalog_written == has_catalog(container)
            meta_ref == info.next
            catalog_ref == IF sc.xmp_metadata THEN meta_ref + 1 ELSE meta_ref
            files == sc.embedded_files
            wef == write_embedded_files(sc.validator, container["embedded_files"] = <<>>)
            af == files # <<>> /\ sc.validator.associated_files
            signed == signature_requested(sc.signer, metadata, container)
            widget_id == catalog_ref + 1
            sig_id == catalog_ref + 2
            needed == {OptRoot(f) : f \in {g \in OptionFields : Has(g)}}
                      \cup {order[i][2] : i \in DOMAIN order}
                      \cup (IF wef \/ af THEN {files[i][2] : i \in DOMAIN files} ELSE {})
            errs == (IF missing_title(metadata) THEN {"NoDocumentTitle"} ELSE {})
                    \cup (IF catalog_written /\ ~has_language(metadata)
                          THEN {"NoDocumentLanguage"} ELSE {})
            root(key, f) == Opt(Has(f), <<Entry(key, 0, remapper[OptRoot(f)])>>)
            catalog == PdfObj("catalog", catalog_ref,
                root("Pages", "page_tree")
                \o Opt(sc.xmp_metadata, <<Entry("Metadata", 0, meta_ref)>>)
                \o root("PageLabels", "page_label_tree")
                \o root("OutputIntents", "destination_profiles")
                \o root("StructTreeRoot", "struct_tree_root")
                \o root("Outlines", "outline")
                \o [i \in DOMAIN order |->
                       Entry("Dests", order[i][1], remapper[order[i][2]])]
                \o Opt(wef, [i \in DOMAIN files |->
                       Entry("EmbeddedFiles", files[i][1], remapper[files[i][2]])])
                \o Opt(af, [i \in DOMAIN files |-> Entry("AF", 0, remapper[files[i][2]])])
                \o Opt(signed, <<Entry("DocMDP", 0, sig_id),
                                 Entry("Fields", 0, widget_id)>>))
            widget == PdfObj("widget", widget_id,
                <<Entry("V", 0, sig_id), Entry("P", 0, OptRoot("page_tree"))>>)
            sig == [kind |-> "sig", ref |-> sig_id,
                    entries |-> <<Entry("Data", 0, catalog_ref)>>,
                    contents |-> write_str(sig_contents),
                    byte_range |-> write_rect(ByteRangeMark, ByteRangeMark,
                                              ByteRangeMark, ByteRangeMark)]
        IN
        /\ pc' = "done"
        /\ file_id' = Some([document_id |-> document_id, instance_id |-> instance_id])
        /\ IF catalog_written /\ ~(needed \subseteq DOMAIN remapper)
           THEN /\ result' = PanicResult
                /\ pdf' = pdf \o info.objs
                /\ remapped_ref' = info.next
                /\ sc' = [sc EXCEPT !.named_destinations = {}, !.embedded_files = <<>>,
                            !.validation_errors =
                                @ \cup (IF missing_title(metadata)
                                        THEN {"NoDocumentTitle"} ELSE {})]
           ELSE /\ result' = OkResult
                /\ pdf' = pdf \o info.objs
                      \o Opt(catalog_written,
                             Opt(sc.xmp_metadata, <<xmp>>)
                             \o <<catalog>>
                             \o Opt(signed, <<widget, sig>>))
                /\ remapped_ref' = IF ~catalog_written THEN info.next
                                   ELSE IF signed THEN sig_id + 1 ELSE catalog_ref + 1
                /\ sc' = [sc EXCEPT !.named_destinations = {}, !.embedded_files = <<>>,
                            !.validation_errors = @ \cup errs]
    /\ UNCHANGED <<container, task_done, new_chunk, metadata, cursor, remapper,
                   seen1, seen2, remap_runs, overtaken>>
    /\ UNCHANGED <<mapperVars, filterVars, cacheVars, gstateVars>>

\* The post-processing step overwrites the ByteRange placeholder of the
\* returned output with the real descriptor.
OverwriteByteRange(a, b, c) ==
    /\ pc = "done"
    /\ result = OkResult
    /\ \E n \in DOMAIN pdf : pdf[n].kind = "sig"
    /\ pdf' = [n \in DOMAIN pdf |->
                 IF pdf[n].kind = "sig"
                 THEN [pdf[n] EXCEPT !.byte_range = overwrite_in_place(@, descriptor(a, b, c))]
                 ELSE pdf[n]]
    /\ pc' = "signed"
    /\ UNCHANGED <<container, task_done, new_chunk, sc, metadata, cursor, remapper,
                   remapped_ref, result, seen1, seen2, remap_runs, overtaken, file_id>>
    /\ UNCHANGED <<mapperVars, filterVars, cacheVars, gstateVars>>

\* ---- Initial states and next-state relations of the container

FinishStartWith(xmp_metadata) ==
    /\ container = EmptyContainer
    /\ task_done = {}
    /\ new_chunk = <<>>
    /\ sc = NewSerializeContext(xmp_metadata)
    /\ metadata = NoneVal
    /\ pc = "authoring"
    /\ cursor = 1
    /\ remapper = <<>>
    /\ remapped_ref = 1
    /\ pdf = <<>>
    /\ result = NoResult
    /\ seen1 = <<>>
    /\ seen2 = <<>>
    /\ remap_runs = <<>>
    /\ overtaken = FALSE
    /\ file_id = NoneVal

\* SerializeSettings::default: xmp_metadata is set
FinishStart == FinishStartWith(TRUE)

\* Chunks are authored into every field but embedded_pdfs; a document without
\* metadata or signer.
FinishNext ==
    \/ \E f \in OptionFields : SetOptional(f)
    \/ \E f \in PlainFields : PushChunk(f)
    \/ \E n \in Names : PushDestination(n)
    \/ \E f \in DeferredFields : PushDeferred(f)
    \/ \E ok \in BOOLEAN : PushImage(ok)
    \/ \E id \in 1 .. MaxChunks : TaskComplete(id)
    \/ StartFinish
    \/ Pass1Visit
    \/ Pass2Visit
    \/ Assemble

\* Producers that may break the rule of one definition per reference.
MalformedNext ==
    \/ \E f \in OptionFields : SetOptional(f)
    \/ \E f \in {"page_tree", "outline"} : SetOptionalDangling(f)
    \/ \E f \in {"fonts", "annotations"} : PushChunk(f)
    \/ \E f \in {"fonts", "annotations"} : \E r \in 1 .. MaxChunks : PushChunkReusing(f, r)
    \/ \E f \in {"fonts", "annotations"} : PushChunkDangling(f)
    \/ \E n \in Names : PushDestination(n)
    \/ \E n \in Names : PushDestinationDangling(n)
    \/ PushDeferred("embedded_files")
    \/ PushEmbeddedFileDangling
    \/ \E id \in 1 .. MaxChunks : TaskComplete(id)
    \/ StartFinish
    \/ Pass1Visit
    \/ Pass2Visit
    \/ Assemble

\* Foreign documents are embedded, next to images and the root chunks.
EmbedNext ==
    \/ \E f \in OptionFields : SetOptional(f)
    \/ \E ok \in BOOLEAN : PushImage(ok)
    \/ \E m \in 1 .. MaxForeign : \E k \in 0 .. m : PushEmbeddedPdf(m, k)
    \/ PushFailedPdf
    \/ \E id \in 1 .. MaxChunks : TaskComplete(id)
    \/ StartFinish
    \/ Pass1Visit
    \/ Pass2Visit
    \/ Assemble

\* A document with metadata, signer and the chunks its catalog refers to.
DocumentNext ==
    \/ \E f \in OptionFields : SetOptional(f)
    \/ \E n \in Names : PushDestination(n)
    \/ \E f \in {"pages", "embedded_files"} : PushDeferred(f)
    \/ \E m \in Metadatas : SetMetadata(m)
    \/ SetSigner
    \/ \E id \in 1 .. MaxChunks : TaskComplete(id)
    \/ StartFinish
    \/ Pass1Visit
    \/ Pass2Visit
    \/ Assemble
    \/ \E a, c \in OffsetTexts(OffsetDigits) : \E b \in OffsetTexts(LengthDigits) :
          OverwriteByteRange(a, b, c)

\* A signed document that holds stream chunks.
SignedNext ==
    \/ SetOptional("page_tree")
    \/ \E data \in StreamDatas : \E ascii_compatible \in BOOLEAN :
          PushStream(data, ascii_compatible)
    \/ \E m \in Metadatas : SetMetadata(m)
    \/ SetSigner
    \/ StartFinish
    \/ Pass1Visit
    \/ Pass2Visit
    \/ Assemble

\* A document with named destinations, some under several names.
DestinationsNext ==
    \/ \E f \in {"page_tree", "outline"} : SetOptional(f)
    \/ \E n \in DestinationNames : PushDestination(n)
    \/ \E n \in DestinationNames : PushDestinationSharing(n)
    \/ \E m \in Metadatas : SetMetadata(m)
    \/ StartFinish
    \/ Pass1Visit
    \/ Pass2Visit
    \/ Assemble

\* A document authored page by page and finished through Document::finish.
PagesNext ==
    \/ \E page_settings \in {"default", "custom"} : StartPage(page_settings)
    \/ \E m \in Metadatas : SetMetadata(m)
    \/ SetSigner
    \/ \E id \in 1 .. MaxPages + 1 : TaskComplete(id)
    \/ DocumentFinish
    \/ Pass1Visit
    \/ Pass2Visit
    \/ Assemble

----------------------------------------------------------------------------
(* Specifications: one per component                                       *)

MapperInit == MapperStart /\ GStateStart /\ FilterIdle /\ CacheStart /\ FinishStart

SpecMapper == MapperInit /\ [][MapperNext]_vars

FilterInit == FilterStart /\ MapperStart /\ GStateStart /\ CacheStart /\ FinishStart

SpecFilter == FilterInit /\ [][FilterNext]_vars

CacheInit == CacheStart /\ MapperStart /\ GStateStart /\ FilterIdle /\ FinishStart

SpecCache == CacheInit /\ [][CacheNext]_vars

SpecFonts == CacheInit /\ [][FontsNext]_vars

GStateInit == GStateStart /\ MapperStart /\ FilterIdle /\ CacheStart /\ FinishStart
SpecGState == GStateInit /\ [][GStateNext]_vars

FinishInit == FinishStart /\ MapperStart /\ GStateStart /\ FilterIdle /\ CacheStart
SpecFinish == FinishInit /\ [][FinishNext]_vars

MalformedInit == FinishStart /\ MapperStart /\ GStateStart /\ FilterIdle /\ CacheStart
SpecMalformed == MalformedInit /\ [][MalformedNext]_vars

EmbedInit == FinishStart /\ MapperStart /\ GStateStart /\ FilterIdle /\ CacheStart
SpecEmbed == EmbedInit /\ [][EmbedNext]_vars

\* The enabling conditions of the steps of finish and of the completion of a
\* task, as state predicates.
FinishCanStep ==
    \/ pc = "assemble"
    \/ /\ pc \in {"pass1", "pass2"}
       /\ visit_slot(Flat(container)[cursor], new_chunk, sc.cur_ref, task_done).ready
TaskOutstanding(id) ==
    /\ pc # "done"
    /\ id \notin task_done
    /\ \E i \in DOMAIN Flat(container) :
          Flat(container)[i].id = id /\ Flat(container)[i].deferred

\* finish is a running call: once entered, a step it can take is taken (weak
\* fairness of its steps; Assemble as WF, the visits with their enabling
\* condition written out). Every background task completes in the end (weak
\* fairness of TaskComplete, written out likewise).
EmbedFairness ==
    /\ WF_vars(Assemble)
    /\ []<>(~FinishCanStep) \/ []<><<Pass1Visit \/ Pass2Visit \/ Assemble>>_vars
    /\ \A id \in 1 .. MaxChunks :
          []<>(~TaskOutstanding(id)) \/ []<><<TaskComplete(id)>>_vars
SpecEmbedLive == EmbedInit /\ [][EmbedNext]_vars /\ EmbedFairness

DocumentInit ==
    /\ \E xmp_metadata \in BOOLEAN : FinishStartWith(xmp_metadata)
    /\ MapperStart /\ GStateStart /\ FilterIdle /\ CacheStart
SpecDocument == DocumentInit /\ [][DocumentNext]_vars

DestinationsInit == FinishStart /\ MapperStart /\ GStateStart /\ FilterIdle /\ CacheStart
SpecDestinations == DestinationsInit /\ [][DestinationsNext]_vars

SignedInit == FinishStart /\ MapperStart /\ GStateStart /\ FilterIdle /\ CacheStart
SpecSigned == SignedInit /\ [][SignedNext]_vars

PagesInit ==
    /\ \E xmp_metadata \in BOOLEAN : FinishStartWith(xmp_metadata)
    /\ MapperStart /\ GStateStart /\ FilterIdle /\ CacheStart
SpecPages == PagesInit /\ [][PagesNext]_vars

----------------------------------------------------------------------------
(* Claims about ResourceMapper                                             *)

\* The distinct values of a call history, in first-seen order.
RECURSIVE FirstSeen(_)
FirstSeen(h) ==
    IF h = <<>> THEN <<>>
    ELSE LET rest == FirstSeen(SubSeq(h, 1, Len(h) - 1))
             v == h[Len(h)][1]
         IN IF v \in Range(rest) THEN rest ELSE Append(rest, v)

\* The number of distinct values among the first n calls of a history.
DistinctAmong(h, n) == Cardinality({h[j][1] : j \in 1 .. n})

\* C6: within one mapper, after any sequence of remap calls, equal values got
\* the same number and name, unequal values never share a number or a name,
\* the k-th distinct value seen (from 0) got number k and name prefix+k, and
\* the mapper still holds that number for the value after every later call.
C6_NameStability ==
    /\ \A i \in DOMAIN mhist : \A j \in DOMAIN mhist :
          /\ (mhist[i][1] = mhist[j][1]) <=> (mhist[i][2] = mhist[j][2])
          /\ (mhist[i][1] = mhist[j][1]) <=> (mhist[i][3] = mhist[j][3])
    /\ \A i \in DOMAIN mhist :
          (\A j \in 1 .. i - 1 : mhist[j][1] # mhist[i][1]) =>
             /\ mhist[i][2] = DistinctAmong(mhist, i - 1)
             /\ mhist[i][3] = get_name \o ToDecimal(DistinctAmong(mhist, i - 1))
    /\ \A i \in DOMAIN mhist :
          /\ mhist[i][1] \in DOMAIN backward
          /\ backward[mhist[i][1]] = mhist[i][2]
          /\ forward[mhist[i][2] + 1] = mhist[i][1]
    /\ mret.op = "get" /\ mret.arg \in {mhist[i][1] : i \in DOMAIN mhist} =>
          \E i \in DOMAIN mhist : mhist[i][1] = mret.arg /\ mret.num = Some(mhist[i][2])
    /\ mret.op = "get_with_name" /\ mret.arg \in {mhist[i][1] : i \in DOMAIN mhist} =>
          \E i \in DOMAIN mhist : mhist[i][1] = mret.arg /\ mret.name = Some(mhist[i][3])

\* C6 witness: a value was remapped, another one after it, then the first again.
C6_Witness ==
    /\ Len(mhist) >= 3
    /\ mhist[1][1] = mhist[3][1]
    /\ mhist[1][1] # mhist[2][1]
    /\ mhist[3][2] = 0
    /\ mhist[2][2] = 1

\* C7: get_entries enumerates exactly the distinct values registered so far,
\* each once, in first-seen order, the i-th paired with the name that
\* remap_with_name returned for that value.
C7_EntriesFirstSeenOrder ==
    mret.op = "get_entries" =>
        /\ Len(mret.entries) = Len(FirstSeen(mhist))
        /\ \A i \in DOMAIN mret.entries :
              /\ mret.entries[i][2] = FirstSeen(mhist)[i]
              /\ \A j \in DOMAIN mhist :
                    mhist[j][1] = mret.entries[i][2] => mhist[j][3] = mret.entries[i][1]

\* C7 witness: entries were enumerated after two distinct values were
\* registered, the first of them twice.
C7_Witness ==
    /\ mret.op = "get_entries"
    /\ Len(mret.entries) >= 2
    /\ Len(mhist) >= 3
    /\ mhist[1][1] = mhist[3][1]
    /\ mhist[1][1] # mhist[2][1]

----------------------------------------------------------------------------
(* Claims about FilterStream                                               *)

\* A reader's ASCIIHexDecode: white space is skipped, each pair of
\* hexadecimal digits is one byte (a missing last digit counts as 0).
HexValue(c) ==
    CASE c >= 48 /\ c <= 57 -> c - 48
      [] c >= 65 /\ c <= 70 -> c - 55
      [] c >= 97 /\ c <= 102 -> c - 87
      [] OTHER -> -1

IsWhiteSpace(c) == c \in {0, 9, 10, 12, 13, 32}

IsHexDigitChar(c) == ~IsWhiteSpace(c)

HexDigitsOf(data) ==
    LET kept == SelectSeq(data, IsHexDigitChar)
    IN [i \in 1 .. Len(kept) |-> HexValue(kept[i])]

HexPairs(ds) ==
    [k \in 1 .. (Len(ds) + 1) \div 2 |->
        (ds[(2 * k) - 1] * 16) + (IF 2 * k <= Len(ds) THEN ds[2 * k] ELSE 0)]

DecodeFailed == <<-2>>

HexDecode(data) ==
    IF \E i \in DOMAIN data : ~IsWhiteSpace(data[i]) /\ HexValue(data[i]) = -1
    THEN DecodeFailed
    ELSE HexPairs(HexDigitsOf(data))

\* A reader's FlateDecode of a zlib stream holding one final stored block:
\* header check, LEN/NLEN check, Adler-32 check.
InflateDecode(data) ==
    IF Len(data) < 11 THEN DecodeFailed
    ELSE LET n == data[4] + (256 * data[5])
             body == SubSeq(data, 8, 7 + n)
             ck == Adler(body)
         IN IF /\ ((data[1] * 256) + data[2]) % 31 = 0
               /\ data[1] % 16 = 8
               /\ data[3] = 1
               /\ data[6] = 255 - data[4]
               /\ data[7] = 255 - data[5]
               /\ Len(data) = n + 11
               /\ SubSeq(data, 8 + n, 11 + n)
                    = <<ck[2] \div 256, ck[2] % 256, ck[1] \div 256, ck[1] % 256>>
            THEN body
            ELSE DecodeFailed

\* A reader's DCTDecode: the image samples of a JPEG file, which are not the
\* bytes of the file; -1 marks "samples decoded from".
DctDecode(data) == <<-1>> \o data

DecodeOne(name, data) ==
    CASE name = "ASCIIHexDecode" -> HexDecode(data)
      [] name = "FlateDecode" -> InflateDecode(data)
      [] name = "DCTDecode" -> DctDecode(data)

\* Undo the declared filters in declared order, the first (outermost) first.
RECURSIVE Undo(_, _)
Undo(names, data) ==
    IF names = <<>> THEN data
    ELSE Undo(Tail(names), DecodeOne(Head(names), data))

\* The declared names without a last DCTDecode.
WithoutFinalDct(names) ==
    IF names # <<>> /\ Last(names) = "DCTDecode"
    THEN SubSeq(names, 1, Len(names) - 1) ELSE names

\* C10 as claimed: for every input, constructor and settings, undoing the
\* declared filters in declared order on encoded_data gives the input back.
C10_RoundTripEveryConstructor ==
    fstream # NoneVal =>
        Undo(write_filters(fstream), encoded_data(fstream)) = finput

\* C10 amended: the round trip holds for every constructor that declares no
\* DCTDecode; for new_from_jpeg_data, DCTDecode is declared last and undoing the
\* filters declared before it gives the input (the JPEG file) back.
C10_RoundTripExceptDct ==
    fstream # NoneVal =>
        /\ fctor # "new_from_jpeg_data" =>
              Undo(write_filters(fstream), encoded_data(fstream)) = finput
        /\ fctor = "new_from_jpeg_data" =>
              /\ Last(write_filters(fstream)) = "DCTDecode"
              /\ Undo(WithoutFinalDct(write_filters(fstream)), encoded_data(fstream)) = finput
        /\ \A i \in DOMAIN write_filters(fstream) :
              write_filters(fstream)[i] = "DCTDecode" => fctor = "new_from_jpeg_data"

\* C10 witness: a stream of more than 35 bytes with a byte below 16 went
\* through Flate and then AsciiHex, so the armoring has a line break.
C10_Witness ==
    /\ fstream # NoneVal
    /\ fctor = "new_from_binary_data"
    /\ fsettings.ascii_compatible
    /\ Len(finput) > 35
    /\ \E i \in DOMAIN finput : finput[i] < 16
    /\ write_filters(fstream) = <<"ASCIIHexDecode", "FlateDecode">>
    /\ \E i \in DOMAIN fstream.content : fstream.content[i] = 10

\* The filters in the order add_filter recorded them.
Recorded(fs) ==
    CASE fs.filters.tag = "None" -> <<>>
      [] fs.filters.tag = "Single" -> <<fs.filters.filter>>
      [] fs.filters.tag = "Multiple" -> fs.filters.filters

\* The content after the filters were applied in the given order (a filter
\* that cannot be applied leaves it alone).
RECURSIVE ApplyInOrder(_, _)
ApplyInOrder(filters, data) ==
    IF filters = <<>> THEN data
    ELSE ApplyInOrder(Tail(filters),
                      IF Head(filters) = "Dct" THEN data ELSE apply(Head(filters), data))

\* C11: the Filter entry written by write_filters names the recorded filters
\* last-applied first: its i-th name is that of the (n+1-i)-th filter recorded,
\* the recorded order being the order in which the filters were applied to
\* the input; one filter is written as one name, two or more as an array, and
\* no filter writes no entry.
C11_FiltersDeclaredInReverse ==
    fdict # NoneVal =>
        LET names == fdict.val.names
            rec == Recorded(fstream)
        IN /\ Len(names) = Len(rec)
           /\ \A i \in DOMAIN names : names[i] = to_name(rec[Len(rec) + 1 - i])
           /\ encoded_data(fstream) = ApplyInOrder(rec, finput)
           /\ fdict.val.form =
                 (IF Len(rec) = 0 THEN "absent" ELSE IF Len(rec) = 1 THEN "name" ELSE "array")

\* C11 witness: two different filters were recorded and the entry is written.
C11_Witness ==
    /\ fdict # NoneVal
    /\ fctor = "new_from_content_stream"
    /\ Recorded(fstream) = <<"Flate", "AsciiHex">>
    /\ fdict.val.names = <<"ASCIIHexDecode", "FlateDecode">>

\* C12: for JPEG data the encoded data is the input (ASCII output off) or
\* its ASCII-hex armoring (on), FlateDecode is not declared and DCTDecode is;
\* and no constructor panics in StreamFilter::apply.
C12_JpegPassThrough ==
    fstream # NoneVal =>
        /\ ~fstream.panicked
        /\ fctor = "new_from_jpeg_data" =>
              /\ encoded_data(fstream) =
                    (IF fsettings.ascii_compatible THEN hex_encode(finput) ELSE finput)
              /\ "DCTDecode" \in Range(write_filters(fstream))
              /\ "FlateDecode" \notin Range(write_filters(fstream))

\* C12 witness: a JPEG stream built from a non-empty input with ASCII output on.
C12_Witness ==
    /\ fstream # NoneVal
    /\ fctor = "new_from_jpeg_data"
    /\ fsettings.ascii_compatible
    /\ Len(finput) > 35
    /\ fdict # NoneVal

\* C29: a content stream built while ASCII-safe output is required is
\* ASCII-armored, with or without compression of content streams: AsciiHex is
\* the last filter recorded and the first declared, the encoded data is the
\* hex encoding of what came before it, and with compression on that is the
\* Flate encoding of the input.
C29_ContentStreamArmored ==
    (fstream # NoneVal /\ fctor = "new_from_content_stream" /\ fsettings.ascii_compatible) =>
        /\ Recorded(fstream) # <<>>
        /\ Last(Recorded(fstream)) = "AsciiHex"
        /\ Head(write_filters(fstream)) = "ASCIIHexDecode"
        /\ encoded_data(fstream) =
              hex_encode(IF fsettings.compress_content_streams
                         THEN deflate_encode(finput) ELSE finput)
        /\ fsettings.compress_content_streams =>
              Recorded(fstream) = <<"Flate", "AsciiHex">>

\* What the armoring of a built stream was applied to.
Armored(fs) == ApplyInOrder(SubSeq(Recorded(fs), 1, Len(Recorded(fs)) - 1), finput)

IsUpperHexDigit(c) == c \in (48 .. 57) \cup (65 .. 70)

\* C30: the hex encoding of n bytes is 2n + floor(n/35) characters long; the
\* byte of index i (from 0) stands as two uppercase hexadecimal digits, high
\* nibble first, at the positions 2i + floor(i/35) + 1 and + 2; a line feed
\* follows the bytes of index 34, 69, ... and stands nowhere else, so that
\* every 71st character is a line feed and no line is longer than 70.
C30_HexEncodeLayout ==
    (fstream # NoneVal /\ Recorded(fstream) # <<>> /\ Last(Recorded(fstream)) = "AsciiHex") =>
        LET data == Armored(fstream)
            out == encoded_data(fstream)
            n == Len(data)
            at(i) == (2 * i) + (i \div 35) + 1
        IN /\ Len(out) = (2 * n) + (n \div 35)
           /\ \A i \in 0 .. n - 1 :
                 /\ IsUpperHexDigit(out[at(i)])
                 /\ IsUpperHexDigit(out[at(i) + 1])
                 /\ (HexValue(out[at(i)]) * 16) + HexValue(out[at(i) + 1]) = data[i + 1]
                 /\ (i % 35 = 34) => out[at(i) + 2] = 10
           /\ \A k \in DOMAIN out : (out[k] = 10) <=> (k % 71 = 0)
           /\ \A k \in DOMAIN out :
                 (k + 70 <= Len(out)) => \E j \in k .. k + 70 : out[j] = 10

\* An armored stream of 70 bytes or more: two full lines, the second line
\* feed being the last character or followed by a third line.
C30_Witness ==
    /\ fstream # NoneVal
    /\ fctor = "new_plain"
    /\ Recorded(fstream) = <<"AsciiHex">>
    /\ Len(finput) = 71
    /\ \E i \in DOMAIN finput : finput[i] < 16
    /\ encoded_data(fstream)[71] = 10
    /\ encoded_data(fstream)[142] = 10
    /\ Len(encoded_data(fstream)) = 144

----------------------------------------------------------------------------
(* Claims about SerializerContext                                          *)

\* How many times serialize_into ran for an object.
TimesProduced(object) == Cardinality({k \in DOMAIN produced : produced[k] = object})

\* C1: over any sequence of add calls on one context, two calls with
\* structurally equal objects returned the same Ref, and serialize_into ran
\* exactly once for every class of equal objects that was added.
C1_DedupExactlyOnce ==
    /\ \A i \in DOMAIN ahist : \A j \in DOMAIN ahist :
          ahist[i][1] = ahist[j][1] => ahist[i][2] = ahist[j][2]
    /\ \A i \in DOMAIN ahist : TimesProduced(ahist[i][1]) = 1

\* The colour-space values a context registers.
ColorSpaces ==
    {ColorSpaceObj(SRGB), ColorSpaceObj(D65Gray),
     PdfColorSpaceObj(SRGB), PdfColorSpaceObj(D65Gray)}

\* The add calls made with an object, in call order, and what they did in
\* total: over column 3 the advance of cur_ref, over column 4 the runs of
\* serialize_into.
Calls(object) == SelectSeq(ahist, LAMBDA e : e[1] = object)
Total(object, column) ==
    SumRange([i \in DOMAIN Calls(object) |-> Calls(object)[i][column]],
             1, Len(Calls(object)))

\* An object of another type with the same hashed fields was added before
\* the first add of the object (the collision of C1).
KeyTakenBefore(object) ==
    \E i \in DOMAIN ahist :
        /\ ahist[i][1] # object
        /\ hash_item(ahist[i][1]) = hash_item(object)
        /\ \A j \in 1..i : ahist[j][1] # object

\* The references the fragment of a colour space takes: the ICC stream of
\* D65Gray is the object itself, SRGB is an array naming a second object.
RefsOfFragment(object) == IF object.fields = <<SRGB>> THEN 2 ELSE 1

\* C19, as stated: a colour-space value registered 3 times in one context
\* produced exactly 1 fragment, and the three registrations advanced the
\* reference counter by exactly 1 in total, for every colour-space value.
C19_ThreeRegistrationsAdvanceByOne ==
    \A object \in ColorSpaces :
        Len(Calls(object)) = 3 =>
            /\ Total(object, 4) = 1
            /\ Total(object, 3) = 1

\* C19, amended: a colour-space value registered 3 times in one context
\* produced at most 1 fragment (exactly 1 unless an object of another type
\* with the same hashed fields took its cache key first, then none), only
\* the first registration advanced the counter, and it advanced it by 1 for
\* the fragment of D65Gray and by 2 for the fragment of SRGB (the array and
\* its ICC stream).
C19_ThreeRegistrationsOneFragment ==
    \A object \in ColorSpaces :
        Len(Calls(object)) = 3 =>
            /\ Total(object, 4) = IF KeyTakenBefore(object) THEN 0 ELSE 1
            /\ TimesProduced(object) = Total(object, 4)
            /\ Total(object, 3) = Total(object, 4) * RefsOfFragment(object)
            /\ Calls(object)[2][3] = 0 /\ Calls(object)[3][3] = 0
            /\ Calls(object)[1][2] = Calls(object)[2][2]
            /\ Calls(object)[2][2] = Calls(object)[3][2]

C19_Witness ==
    /\ Len(Calls(ColorSpaceObj(SRGB))) = 3
    /\ TimesProduced(ColorSpaceObj(SRGB)) = 1
    /\ cur_ref = 3
    /\ Len(sc_chunk) = 2

\* C21: over any sequence of calls on one context, the counter never
\* decreases, the values new_ref hands out start at 1 and are strictly
\* increasing (so none is handed out twice), every value handed out stays
\* below the counter, and the reference add allocated for an object is still
\* the object's, below the counter, after the object's production ran.
C21_ReferencesStrictlyIncreasing ==
    [][/\ cur_ref' >= cur_ref
       /\ Len(nhist) <= Len(nhist')
       /\ \A i \in DOMAIN nhist : nhist'[i] = nhist[i]
       /\ (nhist = <<>> /\ nhist' # <<>>) => nhist'[1] = 1
       /\ \A i \in DOMAIN nhist' : \A j \in DOMAIN nhist' : i < j => nhist'[i] < nhist'[j]
       /\ \A i \in DOMAIN nhist' : nhist'[i] < cur_ref'
       /\ \A i \in (DOMAIN nhist') \ (DOMAIN nhist) : nhist'[i] >= cur_ref
       /\ \A h \in DOMAIN cached_mappings :
             /\ h \in DOMAIN cached_mappings'
             /\ cached_mappings'[h] = cached_mappings[h]
       /\ \A h \in DOMAIN cached_mappings' :
             /\ cached_mappings'[h] \in Range(nhist')
             /\ cached_mappings'[h] < cur_ref'
      ]_vars

\* new_ref and add both allocated, an add allocated during the production of
\* another object, and a later call got a value above all of them.
C21_Witness ==
    /\ Len(nhist) = 4
    /\ nhist[4] = 4
    /\ \E i \in DOMAIN ahist : ahist[i][4] = 2
    /\ Cardinality({ahist[i][2] : i \in DOMAIN ahist}) = 2
    /\ aret = [ref |-> 4]

\* C27: the cache key includes the type of the item, so two added objects
\* that are not structurally equal (another type, or other fields) never share
\* a cache entry: add returned different references for them.
C27_UnequalObjectsDistinctRefs ==
    \A i \in DOMAIN ahist : \A j \in DOMAIN ahist :
        ahist[i][1] # ahist[j][1] => ahist[i][2] # ahist[j][2]

\* C20: an add call that finds the object's hash in the cache changes neither
\* the reference counter, nor the cache map, nor the chunk, nor the font table.
C20_CacheHitNoSideEffects ==
    [][(/\ Len(ahist') = Len(ahist) + 1
        /\ hash_item(Last(ahist')[1]) \in DOMAIN cached_mappings)
            => /\ cur_ref' = cur_ref
               /\ cached_mappings' = cached_mappings
               /\ sc_chunk' = sc_chunk
               /\ fonts' = fonts
               /\ aret' = [ref |-> cached_mappings[hash_item(Last(ahist')[1])]]
      ]_vars

\* A hit was served on a context whose counter, cache, chunk and font table
\* all hold something.
C20_Witness ==
    /\ \E i \in DOMAIN ahist : \E j \in 1..(i - 1) :
          /\ ahist[j][1] = ahist[i][1]
          /\ ahist[i][3] = 0
          /\ aret = [ref |-> ahist[i][2]]
    /\ Len(ahist) = 2
    /\ ncalls = 3
    /\ fonts # <<>>
    /\ sc_chunk # <<>>

\* C35: after every call each mapper has a font; every Type3 font of a mapper
\* but the last is full and none holds more glyphs than a Type3 font can; a
\* call adds at most one font to a mapper, and only when the mapper had no
\* font or its last font was full, and no font of it covered the glyph, which
\* then is the one glyph of the new font.
C35_Type3FontsFilledInOrder ==
    [][\A f \in DOMAIN fonts' :
          LET new == fonts'[f]
              old == IF f \in DOMAIN fonts THEN fonts[f] ELSE <<>>
          IN /\ new # <<>>
             /\ \A i \in 1 .. Len(new) - 1 : Len(new[i]) = Type3Capacity
             /\ \A i \in DOMAIN new : Len(new[i]) <= Type3Capacity
             /\ Len(new) >= Len(old)
             /\ Len(new) > Len(old) =>
                   /\ Len(new) = Len(old) + 1
                   /\ old = <<>> \/ Len(Last(old)) = Type3Capacity
                   /\ Len(Last(new)) = 1
                   /\ \A i \in DOMAIN old : \A k \in DOMAIN old[i] :
                         old[i][k] # Last(new)[1]]_vars

\* C35 witness: a mapper whose first font is full and whose second font,
\* opened by the last call, holds one glyph.
C35_Witness ==
    /\ "glyph" \in DOMAIN aret
    /\ aret.font_resource[2] = 1
    /\ aret.glyph = 0
    /\ \E f \in DOMAIN fonts :
          /\ f = aret.font_resource[1]
          /\ Len(fonts[f]) = 2
          /\ Len(fonts[f][1]) = Type3Capacity
          /\ Len(fonts[f][2]) = 1

\* C36: a call of map_glyph for a glyph of a font that was mapped before
\* returns the (font index, glyph code) pair it returned the first time and
\* adds no Type3 font, whatever was mapped in between; it never returns a pair
\* that another glyph of the font got; the font resource names the font asked
\* for.
C36_AddGlyphStable ==
    [][("glyph" \in DOMAIN aret' /\ ncalls' = ncalls + 1) =>
          LET font == ghist'.last[1]
              glyph == ghist'.last[2]
              pair == <<aret'.font_resource[2], aret'.glyph>>
          IN /\ aret'.font_resource[1] = font
             /\ \A t \in ghist.seen :
                   (t[1] = font /\ t[2] = glyph) =>
                       /\ <<t[3], t[4]>> = pair
                       /\ Len(fonts'[font]) = Len(fonts[font])
             /\ \A t \in ghist.seen :
                   (t[1] = font /\ t[2] # glyph) => <<t[3], t[4]>> # pair]_vars

\* C36 witness: the fourth call maps the glyph of the first call again, after
\* two other glyphs of the font filled its first Type3 font and opened a
\* second; the pair is that of the first call, (0, 0).
C36_Witness ==
    /\ ncalls = 4
    /\ "glyph" \in DOMAIN aret
    /\ aret.font_resource[2] = 0 /\ aret.glyph = 0
    /\ ghist.last[1] = aret.font_resource[1]
    /\ Cardinality({t \in ghist.seen : t[1] = ghist.last[1]}) = 3
    /\ <<ghist.last[1], ghist.last[2], 0, 0>> \in ghist.seen
    /\ Len(fonts[ghist.last[1]]) = 2

\* The references write_fonts obtained: those the cache holds for the font
\* resources.
FontRefs ==
    {cached_mappings[h] : h \in {k \in DOMAIN cached_mappings : k[1] > 100}}

\* C37: every reference that write_fonts obtained for a font resource is
\* defined at most once in the chunk of the context, however often
\* write_fonts was called.
C37_FontRefsDefinedOnce ==
    \A r \in FontRefs :
        Cardinality({k \in DOMAIN sc_chunk : sc_chunk[k].ref = r}) <= 1

----------------------------------------------------------------------------
(* Claims about ChunkContainer::finish                                     *)

\* The references defined by the chunks pass 1 has visited, in visit order.
Pass1Refs == Flatten([i \in DOMAIN seen1 |-> ChunkRefs(seen1[i][2])])

\* The objects of the output that pass 2 wrote.
ChunkObjects == SelectSeq(pdf, LAMBDA o : o.kind = "chunk")

Returned(tag) == pc = "done" /\ result.tag = tag

\* C2: pass 1 maps the references defined by the visited chunks one-to-one
\* onto 1..N: the i-th defined reference in visit order gets i, the final
\* counter stands at N + 1 when pass 1 ends, and in the returned output each of
\* 1..N is defined by exactly one written chunk object.
C2_Pass1SequentialFromOne ==
    pc \in {"pass1", "pass2", "assemble", "done"} =>
        /\ DOMAIN remapper = Range(Pass1Refs)
        /\ \A i \in DOMAIN Pass1Refs : remapper[Pass1Refs[i]] = i
        /\ pc \in {"pass1", "pass2", "assemble"} => remapped_ref = Len(Pass1Refs) + 1
        /\ Returned("Ok") =>
              /\ \A n \in 1 .. Len(Pass1Refs) :
                    Cardinality({i \in DOMAIN ChunkObjects : ChunkObjects[i].ref = n}) = 1
              /\ \A i \in DOMAIN ChunkObjects : ChunkObjects[i].ref \in 1 .. Len(Pass1Refs)

\* C2 witness: finish returned an output of three chunk objects whose
\* references were renumbered (a reference changed its number).
C2_Witness ==
    /\ Returned("Ok")
    /\ Len(Pass1Refs) >= 3
    /\ \E r \in DOMAIN remapper : remapper[r] # r

\* The references the producers were handed while authoring a slot.
HandedOut(slot) ==
    IF slot.tag = "Pdf" THEN Cardinality(DOMAIN slot.mappings)
    ELSE IF slot.tag = "Err" THEN 1
    ELSE Len(slot.chunk)

\* The reference the context hands out next when authoring is over.
AuthoredNext ==
    1 + SumRange([i \in DOMAIN Flat(container) |-> HandedOut(Flat(container)[i])],
                 1, TotalSlots)

AllIds == {Flat(container)[i].id : i \in DOMAIN Flat(container)}

\* The traversal of the slots when every background task completed before
\* finish was entered: the <<slot id, chunk>> pairs up to the first error.
RECURSIVE TraverseAll(_, _, _, _)
TraverseAll(slots, cells, cur, acc) ==
    IF slots = <<>> THEN [err |-> NoneVal, seen |-> acc]
    ELSE LET v == visit_slot(Head(slots), cells, cur, AllIds)
             acc2 == Append(acc, <<Head(slots).id, v.chunk>>)
         IN IF v.err # NoneVal THEN [err |-> v.err, seen |-> acc2]
            ELSE TraverseAll(Tail(slots), v.cells, v.cur, acc2)

Expected == TraverseAll(Flat(container), <<>>, AuthoredNext, <<>>)

RECURSIVE MappingOf(_, _, _)
MappingOf(seen, map, next) ==
    IF seen = <<>> THEN map
    ELSE LET c == pass1_closure(Head(seen)[2], map, next)
         IN MappingOf(Tail(seen), c.remapper, c.remapped_ref)

ExpectedMapping == MappingOf(Expected.seen, <<>>, 1)

ExpectedObjects ==
    Flatten([i \in DOMAIN Expected.seen |->
                pass2_closure(Expected.seen[i][2], ExpectedMapping).val])

IsPrefix(s, t) == Len(s) <= Len(t) /\ \A i \in DOMAIN s : s[i] = t[i]

\* C4: for the authored container, the chunks finish visits in either pass,
\* the old-to-new mapping, the chunk objects written and the value returned
\* are those of the traversal in which every task had completed beforehand,
\* whatever the order in which the tasks really completed.
C4_IndependentOfCompletionOrder ==
    /\ IsPrefix(seen1, Expected.seen)
    /\ IsPrefix(seen2, Expected.seen)
    /\ (pc \in {"pass2", "assemble"} \/ Returned("Ok")) => remapper = ExpectedMapping
    /\ (pc = "assemble" \/ Returned("Ok")) => ChunkObjects = ExpectedObjects
    /\ pc = "done" =>
          IF Expected.err = NoneVal THEN result = OkResult
          ELSE result = ErrResult(Expected.err.val)

\* C4 witness: finish returned the output of a container of which a task
\* completed before the task of a slot that is visited earlier.
C4_Witness ==
    /\ Returned("Ok")
    /\ overtaken
    /\ Len(ChunkObjects) >= 2

FailedIn(f) == {i \in DOMAIN container[f] : container[f][i].tag = "Err"}
FirstIn(S) == CHOOSE i \in S : \A j \in S : i <= j

\* The error of the first failed fragment: images before embedded PDFs,
\* each in append order.
FirstFailure ==
    IF FailedIn("images") # {}
    THEN container["images"][FirstIn(FailedIn("images"))].err
    ELSE container["embedded_pdfs"][FirstIn(FailedIn("embedded_pdfs"))].err

\* C5: when a fallible fragment (an image or an embedded PDF) failed, finish
\* returns Err with the error of the first failed fragment in traversal order
\* and has written no output; it does not return Ok.
C5_FirstFailureReturned ==
    (pc = "done" /\ (FailedIn("images") # {} \/ FailedIn("embedded_pdfs") # {})) =>
        /\ result = ErrResult(FirstFailure)
        /\ pdf = <<>>

\* C5 witness: an embedded PDF failed and an image registered after it failed
\* too; finish returned the error of the image.
C5_Witness ==
    /\ Returned("Err")
    /\ \E i \in FailedIn("images") : \E j \in FailedIn("embedded_pdfs") :
          /\ container["embedded_pdfs"][j].id < container["images"][i].id
          /\ result.err = container["images"][i].err

\* The embedded PDFs whose local remap has run.
Remapped == {i \in DOMAIN container["embedded_pdfs"] :
                container["embedded_pdfs"][i].id \in DOMAIN new_chunk}

\* M and K of a foreign chunk: its distinct references, and the pinned ones.
DistinctRefs(slot) == Range(Occurrences(slot.chunk))
PinnedRefs(slot) == DOMAIN slot.mappings \cap DistinctRefs(slot)

FreshCount ==
    SumRange([i \in DOMAIN container["embedded_pdfs"] |->
                 IF i \in Remapped
                 THEN Cardinality(DistinctRefs(container["embedded_pdfs"][i]))
                      - Cardinality(PinnedRefs(container["embedded_pdfs"][i]))
                 ELSE 0],
             1, Len(container["embedded_pdfs"]))

\* The host reference a foreign reference was given: the one its defining
\* object carries in the remapped chunk.
HostRef(slot, old) ==
    new_chunk[slot.id][CHOOSE i \in DOMAIN slot.chunk : slot.chunk[i].ref = old].ref

\* C8: the local remaps that have run advanced the context's counter by
\* exactly M - K each; a pinned reference went to its pre-assigned host
\* reference, every other one to a reference handed out by the remap, each
\* foreign reference to one host reference wherever it occurs.
C8_LocalRemapAllocatesMMinusK ==
    /\ sc.cur_ref = AuthoredNext + FreshCount
    /\ \A i \in Remapped :
        LET slot == container["embedded_pdfs"][i]
            fresh == {HostRef(slot, old) : old \in DistinctRefs(slot) \ PinnedRefs(slot)}
        IN /\ \A old \in PinnedRefs(slot) : HostRef(slot, old) = slot.mappings[old]
           /\ fresh \subseteq AuthoredNext .. (sc.cur_ref - 1)
           /\ Cardinality(fresh) = Cardinality(DistinctRefs(slot) \ PinnedRefs(slot))
           /\ \A n \in DOMAIN slot.chunk : \A j \in DOMAIN slot.chunk[n].refs :
                 new_chunk[slot.id][n].refs[j] = HostRef(slot, slot.chunk[n].refs[j])

\* C8 witness: finish returned after remapping a foreign chunk of which some
\* references are pinned and some are not.
C8_Witness ==
    /\ Returned("Ok")
    /\ \E i \in Remapped :
          /\ PinnedRefs(container["embedded_pdfs"][i]) # {}
          /\ DistinctRefs(container["embedded_pdfs"][i])
               # PinnedRefs(container["embedded_pdfs"][i])

ChunkSeen(seen, id) == seen[CHOOSE i \in DOMAIN seen : seen[i][1] = id][2]
SeenIds(seen) == {seen[i][1] : i \in DOMAIN seen}

\* C9: the local remap of an EmbeddedPdfChunk has run at most once; once
\* pass 1 is over the context's counter stands where the first visits left it
\* (every reference it handed out since authoring is known to the pass-1
\* mapping), and pass 2 is handed the very chunk pass 1 was handed.
C9_LocalRemapOnce ==
    /\ \A id \in DOMAIN remap_runs : remap_runs[id] <= 1
    /\ \A i \in DOMAIN container["embedded_pdfs"] :
        LET id == container["embedded_pdfs"][i].id
        IN (id \in SeenIds(seen2) /\ container["embedded_pdfs"][i].tag = "Pdf") =>
              /\ id \in SeenIds(seen1)
              /\ ChunkSeen(seen2, id) = ChunkSeen(seen1, id)
    /\ (pc \in {"pass2", "assemble"} \/ Returned("Ok") \/ Returned("Panic")) =>
          AuthoredNext .. (sc.cur_ref - 1) \subseteq DOMAIN remapper

\* C9 witness: finish returned after both passes visited an embedded PDF
\* whose local remap handed out a fresh reference.
C9_Witness ==
    /\ Returned("Ok")
    /\ \E i \in Remapped :
          /\ container["embedded_pdfs"][i].id \in SeenIds(seen2)
          /\ remap_runs[container["embedded_pdfs"][i].id] = 1
          /\ DistinctRefs(container["embedded_pdfs"][i])
               # PinnedRefs(container["embedded_pdfs"][i])

\* C3: every reference in the returned output, as the number of an object or
\* written inside one (chunk, catalog, signature widget, signature
\* dictionary), is a final reference, one of those the final counter handed
\* out in pass 1 or after it; and wherever the page-tree reference is written
\* (the catalog's Pages, the widget's P), it is the pass-1 image of the
\* page tree's reference.
C3_EveryWrittenRefFinal ==
    Returned("Ok") =>
        \A n \in DOMAIN pdf :
            /\ pdf[n].ref \in 1 .. (remapped_ref - 1)
            /\ \A j \in DOMAIN pdf[n].entries :
                /\ pdf[n].entries[j].ref \in 1 .. (remapped_ref - 1)
                /\ pdf[n].entries[j].key \in {"Pages", "P"} =>
                      pdf[n].entries[j].ref = remapper[OptRoot("page_tree")]

----------------------------------------------------------------------------
(* Claims about the catalog, the diagnostics and the signature objects    *)

ObjectsOfKind(kind) == SelectSeq(pdf, LAMBDA o : o.kind = kind)
AnyRoot ==
    \/ container["page_tree"] # <<>>
    \/ container["outline"] # <<>>
    \/ container["page_label_tree"] # <<>>
    \/ container["destination_profiles"] # <<>>
    \/ container["struct_tree_root"] # <<>>
KeysOf(o) == {o.entries[i].key : i \in DOMAIN o.entries}

NoTitle == metadata = NoneVal \/ ~metadata.val.title
NoLanguage == metadata = NoneVal \/ ~metadata.val.language

\* C14 as claimed: whenever finish returns Ok, a missing title has registered
\* NoDocumentTitle and a missing language has registered NoDocumentLanguage.
C14_DiagnosticsAlwaysRegistered ==
    Returned("Ok") =>
        /\ NoTitle => "NoDocumentTitle" \in sc.validation_errors
        /\ NoLanguage => "NoDocumentLanguage" \in sc.validation_errors

\* C14 amended: whenever finish returns Ok, NoDocumentTitle is registered
\* exactly if the title is missing, and NoDocumentLanguage exactly if the
\* language is missing and a catalog is written; a missing title or language
\* never makes finish return anything but Ok.
C14_DiagnosticsWhenCatalog ==
    /\ Returned("Ok") =>
          /\ "NoDocumentTitle" \in sc.validation_errors <=> NoTitle
          /\ "NoDocumentLanguage" \in sc.validation_errors <=> (NoLanguage /\ AnyRoot)
    /\ (pc = "done" /\ (NoTitle \/ NoLanguage)) => result = OkResult

\* C14 witness: finish returned Ok for a document with a catalog whose
\* metadata has neither title nor language; both diagnostics are registered.
C14_Witness ==
    /\ Returned("Ok")
    /\ AnyRoot
    /\ metadata # NoneVal
    /\ NoTitle /\ NoLanguage
    /\ sc.validation_errors = {"NoDocumentTitle", "NoDocumentLanguage"}

\* C15: when a catalog is written and a signer, a creation date and a page
\* tree are all present, the two references after the catalog's are taken by
\* the signature widget and the signature dictionary, both written, and the
\* catalog holds the Perms (DocMDP) and AcroForm (Fields) entries naming them;
\* otherwise the final counter stops after the catalog and no widget,
\* signature dictionary, DocMDP or Fields entry is written.
C15_SignatureObjectsIffRequested ==
    (Returned("Ok") /\ AnyRoot) =>
        LET catalog == ObjectsOfKind("catalog")[1]
            requested == /\ sc.signer # NoneVal
                         /\ metadata # NoneVal /\ metadata.val.creation_date
                         /\ container["page_tree"] # <<>>
        IN IF requested
           THEN /\ remapped_ref = catalog.ref + 3
                /\ [i \in DOMAIN ObjectsOfKind("widget") |-> ObjectsOfKind("widget")[i].ref]
                      = <<catalog.ref + 1>>
                /\ [i \in DOMAIN ObjectsOfKind("sig") |-> ObjectsOfKind("sig")[i].ref]
                      = <<catalog.ref + 2>>
                /\ \E i \in DOMAIN catalog.entries :
                      catalog.entries[i] = Entry("DocMDP", 0, catalog.ref + 2)
                /\ \E i \in DOMAIN catalog.entries :
                      catalog.entries[i] = Entry("Fields", 0, catalog.ref + 1)
           ELSE /\ remapped_ref = catalog.ref + 1
                /\ ObjectsOfKind("widget") = <<>>
                /\ ObjectsOfKind("sig") = <<>>
                /\ KeysOf(catalog) \cap {"DocMDP", "Fields"} = {}

\* C15 witness: a signed document was returned: the widget and the signature
\* dictionary are in the output.
C15_Witness ==
    /\ Returned("Ok")
    /\ ObjectsOfKind("widget") # <<>>
    /\ ObjectsOfKind("sig") # <<>>
    /\ sc.xmp_metadata

\* The width the ByteRange placeholder is said to have.
PlaceholderWidth == 37

Eights == <<"8", "8", "8", "8", "8", "8", "8", "8">>

\* C16: in every output, signed or not yet, the ByteRange entry of the
\* signature dictionary is 37 characters wide; before the overwrite it reads
\* [88888888 88888888 88888888 88888888], and after it the real descriptor
\* [0 a b c], with a and c of up to 10 digits and b of up to 11, stands in it.
C16_ByteRangeWidthFixed ==
    \A n \in DOMAIN pdf :
        pdf[n].kind = "sig" =>
            /\ Len(pdf[n].byte_range) = PlaceholderWidth
            /\ pc # "signed" =>
                  pdf[n].byte_range =
                      <<"[">> \o Eights \o <<" ">> \o Eights \o <<" ">>
                              \o Eights \o <<" ">> \o Eights \o <<"]">>
            /\ pc = "signed" =>
                  /\ SubSeq(pdf[n].byte_range, 1, 3) = <<"[", "0", " ">>
                  /\ \E i \in DOMAIN pdf[n].byte_range : pdf[n].byte_range[i] = "]"

\* C16 witness: the placeholder was overwritten with the widest descriptor,
\* which fills all 37 characters.
C16_Witness ==
    /\ pc = "signed"
    /\ \E n \in DOMAIN pdf :
          /\ pdf[n].kind = "sig"
          /\ pdf[n].byte_range[PlaceholderWidth] = "]"
          /\ pdf[n].byte_range[PlaceholderWidth - 1] = "9"

----------------------------------------------------------------------------
(* Claims about containers that break the one-definition rule             *)

\* Two chunks that pass 1 has visited define the same reference.
DuplicateDefined ==
    \E i, j \in DOMAIN Pass1Refs : i < j /\ Pass1Refs[i] = Pass1Refs[j]

\* C17: once pass 1 has met a reference that an earlier visited chunk
\* defines too, finish is over and has returned no Pdf.
C17_DuplicateAborts ==
    DuplicateDefined => (pc = "done" /\ result.tag # "Ok")

\* The references defined by the chunks of the container.
DefinedRefs ==
    UNION {Range(ChunkRefs(Flat(container)[i].chunk)) : i \in DOMAIN Flat(container)}

\* The references the catalog assembly looks up in the mapping.
CatalogLookups ==
    IF ~AnyRoot THEN {}
    ELSE {container[f][1].root : f \in {g \in OptionFields : container[g] # <<>>}}
         \cup {d[2] : d \in sc.named_destinations}
         \cup (IF container["embedded_files"] # <<>> \/ sc.embedded_files # <<>>
               THEN {sc.embedded_files[i][2] : i \in DOMAIN sc.embedded_files}
               ELSE {})

\* C18: a step of the write pass on a chunk all of whose references are
\* defined in the container writes the chunk and does not fail, and the
\* catalog assembly of a container whose root, named-destination and
\* embedded-file references are all defined returns Ok; a step that meets a
\* reference no chunk defines ends finish in a panic, and nothing is written
\* for that chunk, or no catalog.
C18_LookupsDefinedOrAbort ==
    [][/\ seen2' # seen2 =>
            LET chunk == Last(seen2')[2]
            IN IF Range(Occurrences(chunk)) \subseteq DefinedRefs
               THEN result' = NoResult /\ Len(pdf') = Len(pdf) + Len(chunk)
               ELSE result' = PanicResult /\ pc' = "done" /\ pdf' = pdf
       /\ (pc = "assemble" /\ pc' = "done") =>
            IF CatalogLookups \subseteq DefinedRefs
            THEN result' = OkResult
            ELSE /\ result' = PanicResult
                 /\ \A n \in DOMAIN pdf' : pdf'[n].kind \in {"chunk", "info"}
      ]_vars

\* C18 witness: finish panicked in the catalog assembly, after the write
\* pass went through every chunk, in a container without duplicates.
C18_Witness ==
    /\ Returned("Panic")
    /\ ~DuplicateDefined
    /\ Len(seen2) = TotalSlots
    /\ TotalSlots > 1

----------------------------------------------------------------------------
(* Claims about Document::finish                                           *)

\* The page objects of the written document: the chunk objects whose number
\* is the final number of a page of the document.
PagesWritten ==
    {n \in DOMAIN pdf :
        /\ pdf[n].kind = "chunk"
        /\ \E i \in DOMAIN sc.page_infos :
              /\ sc.page_infos[i].ref \in DOMAIN remapper
              /\ remapper[sc.page_infos[i].ref] = pdf[n].ref}

\* C22: Document::finish on a document without pages starts exactly one
\* page, with the default settings, before it serializes, and adds none to a
\* document that has a page; the document it returns has at least one page,
\* all the pages of the document, and a catalog that names the page tree.
C22_DefaultPageWhenEmpty ==
    [][/\ (pc = "authoring" /\ pc' # "authoring") =>
            /\ Len(sc'.page_infos) = IF sc.page_infos = <<>> THEN 1 ELSE Len(sc.page_infos)
            /\ \A i \in DOMAIN sc.page_infos : sc'.page_infos[i] = sc.page_infos[i]
            /\ sc.page_infos = <<>> => sc'.page_infos[1].settings = "default"
            /\ Len(container'["pages"]) = Len(sc'.page_infos)
            /\ Len(container'["page_tree"]) = 1
       /\ (pc' = "done" /\ result' = OkResult) =>
            /\ Len(sc'.page_infos) >= 1
            /\ Cardinality(PagesWritten') = Len(sc'.page_infos)
            /\ \E n \in DOMAIN pdf' :
                  /\ pdf'[n].kind = "catalog"
                  /\ \E e \in DOMAIN pdf'[n].entries : pdf'[n].entries[e].key = "Pages"
      ]_vars

\* Document::finish returned a document whose only page is a default page.
C22_Witness ==
    /\ pc = "done"
    /\ result = OkResult
    /\ Len(sc.page_infos) = 1
    /\ sc.page_infos[1].settings = "default"
    /\ Cardinality(PagesWritten) = 1

----------------------------------------------------------------------------
(* Claims about the Deferred slots of the container                        *)

\* The Deferred slots of the container, and how often a pass waited on one:
\* a visit of a Deferred slot is one call of wait.
DeferredIds == {Flat(container)[i].id : i \in {j \in DOMAIN Flat(container) :
                                                 Flat(container)[j].deferred}}
Waits(seen, id) == Cardinality({i \in DOMAIN seen : seen[i][1] = id})

\* C23, as stated: when finish has returned, every Deferred slot of the
\* container has been waited on exactly once.
C23_WaitedOnExactlyOnce ==
    pc = "done" => \A id \in DeferredIds : Waits(seen1, id) + Waits(seen2, id) = 1

\* C23, amended: each pass of finish waits on a Deferred slot at most once,
\* pass 2 only on slots pass 1 waited on, and when finish returned Ok every
\* Deferred slot was waited on exactly twice: once in pass 1 and once more in
\* pass 2.
C23_WaitedOnOncePerPass ==
    \A id \in DeferredIds :
        /\ Waits(seen1, id) <= 1
        /\ Waits(seen2, id) <= Waits(seen1, id)
        /\ Returned("Ok") => Waits(seen1, id) + Waits(seen2, id) = 2

C23_Witness ==
    /\ Returned("Ok")
    /\ Cardinality(DeferredIds) = 2
    /\ \A id \in DeferredIds : Waits(seen1, id) = 1 /\ Waits(seen2, id) = 1

\* C24, as stated: when finish has returned, with Ok or with Err, the
\* background task of every Deferred slot of the container has completed.
C24_NoTaskOutstandingAtReturn ==
    (Returned("Ok") \/ Returned("Err")) => DeferredIds \subseteq task_done

\* C24, amended: finish never gets past a Deferred slot whose task is
\* outstanding, so when it returns Ok the task of every Deferred slot has
\* completed; when it returns Err the tasks of the slots up to the failed one
\* have completed, and those of the slots after it may be outstanding.
C24_NoTaskOutstandingBehindFinish ==
    /\ \A id \in DeferredIds :
          (id \in SeenIds(seen1) \/ id \in SeenIds(seen2)) => id \in task_done
    /\ Returned("Ok") => DeferredIds \subseteq task_done
    /\ Returned("Err") =>
          \A i \in DOMAIN Flat(container) :
              (Flat(container)[i].deferred /\ i <= Len(seen1)) =>
                  Flat(container)[i].id \in task_done

\* finish returned Ok over two Deferred slots whose tasks completed while
\* finish was running, the second before the first.
C24_Witness ==
    /\ Returned("Ok")
    /\ Cardinality(DeferredIds) = 2
    /\ overtaken
    /\ DeferredIds \subseteq task_done

\* C28: when every background task behind a Deferred slot completes in the
\* end, a finish that was entered returns in the end, with Ok, Err or a panic.
C28_FinishReturns ==
    (pc \in {"pass1", "pass2", "assemble"}) ~> (pc = "done")

\* finish returned over two Deferred slots, whose tasks completed in the order
\* of the slots.
C28_Witness ==
    /\ pc = "done"
    /\ result.tag \in {"Ok", "Err"}
    /\ Cardinality(DeferredIds) = 2
    /\ DeferredIds \subseteq task_done
    /\ ~overtaken

----------------------------------------------------------------------------
(* Claims about the named destinations                                     *)

\* The names of the destination entries of the written catalog, in the order
\* they were written.
DestsWritten ==
    LET c == ObjectsOfKind("catalog")[1].entries
        e == SelectSeq(c, LAMBDA x : x.key = "Dests")
    IN [i \in DOMAIN e |-> e[i].name]

\* C25: the order in which the named destinations are written is decided by
\* the set of (name, reference) pairs alone: whatever order the HashMap
\* yields them in, the sort leaves them in one and the same order, also when
\* several names share a reference.
C25_DestinationOrderDetermined ==
    pc = "assemble" =>
        \A o1 \in SortedByRef(sc.named_destinations) :
            \A o2 \in SortedByRef(sc.named_destinations) : o1 = o2

\* C26: the named destinations are written in ascending order of their names.
C26_DestinationsSortedByName ==
    (Returned("Ok") /\ ObjectsOfKind("catalog") # <<>>) =>
        \A i \in DOMAIN DestsWritten : \A j \in DOMAIN DestsWritten :
            i < j => DestsWritten[i] <= DestsWritten[j]

----------------------------------------------------------------------------
(* Claims about the document-level objects and the identifiers           *)

\* The objects finish wrote after the write pass, in the order written.
DocumentLevel == SelectSeq(pdf, LAMBDA o : o.kind # "chunk")

\* C31: in a returned output the objects written after the chunks are, in
\* this order, the document info (with metadata), the XMP metadata stream
\* (with the setting on and a catalog written), the catalog (with a root
\* field), the signature widget and the signature dictionary (when signing);
\* they follow every chunk object, the i-th of them has the reference N + i,
\* N being the number of references the chunks define, and the final counter
\* stops behind the last: all are above N and no two are equal.
C31_DocumentObjectsAfterChunks ==
    Returned("Ok") =>
        LET N == Cardinality(DOMAIN remapper)
            doc == DocumentLevel
            signing == /\ sc.signer # NoneVal
                       /\ metadata # NoneVal /\ metadata.val.creation_date
                       /\ container["page_tree"] # <<>>
            expected ==
                Opt(metadata # NoneVal, <<"info">>)
                \o Opt(AnyRoot, Opt(sc.xmp_metadata, <<"metadata">>)
                                \o <<"catalog">>
                                \o Opt(signing, <<"widget", "sig">>))
        IN /\ [i \in DOMAIN doc |-> doc[i].kind] = expected
           /\ \A i \in DOMAIN doc : doc[i].ref = N + i
           /\ remapped_ref = N + Len(doc) + 1
           /\ pdf = ChunkObjects \o doc
           /\ \A i \in DOMAIN ChunkObjects : ChunkObjects[i].ref <= N
           /\ \A i, j \in DOMAIN pdf : i # j => pdf[i].ref # pdf[j].ref

\* C31 witness: a signed document with chunks, metadata and the XMP stream
\* was returned: all five document-level objects stand behind the chunks.
C31_Witness ==
    /\ Returned("Ok")
    /\ Len(ChunkObjects) >= 2
    /\ [i \in DOMAIN DocumentLevel |-> DocumentLevel[i].kind]
          = <<"info", "metadata", "catalog", "widget", "sig">>
    /\ DocumentLevel[5].ref = Len(ChunkObjects) + 5

----------------------------------------------------------------------------
(* Claims about the traversal order of the two passes                     *)

\* The category list of the data model, as container fields.
CategoryList ==
    <<"pages", "fonts", "color_spaces", "icc_profiles", "masks", "x_objects",
      "shading_functions", "patterns", "images", "embedded_files", "embedded_pdfs",
      "struct_elements", "annotations", "destinations", "outline", "page_label_tree",
      "destination_profiles">>

IndexIn(list, f) == CHOOSE i \in DOMAIN list : list[i] = f

\* The field that holds the slot, and the slot's place in it.
FieldOf(id) == CHOOSE f \in Range(VisitOrder) : \E k \in DOMAIN container[f] : container[f][k].id = id
PlaceOf(id) == CHOOSE k \in DOMAIN container[FieldOf(id)] : container[FieldOf(id)][k].id = id

\* The field of a stands before the field of b in the order, or both are in
\* one field and a was appended first.
Before(order, a, b) ==
    \/ IndexIn(order, FieldOf(a)) < IndexIn(order, FieldOf(b))
    \/ FieldOf(a) = FieldOf(b) /\ PlaceOf(a) < PlaceOf(b)

\* C32 as claimed: in both passes, of two visited slots whose categories are
\* in the category list of the data model, the one whose category stands
\* first in that list (or, in one category, the one appended first) is
\* visited first.
C32_TraversalInCategoryListOrder ==
    \A seen \in {seen1, seen2} : \A i, j \in DOMAIN seen :
        (/\ i < j
         /\ FieldOf(seen[i][1]) \in Range(CategoryList)
         /\ FieldOf(seen[j][1]) \in Range(CategoryList))
            => Before(CategoryList, seen[i][1], seen[j][1])

\* C32 amended: both passes visit the fields in the order of impl Visit for
\* ChunkContainer (page tree, outline, page-label tree, destination profiles,
\* struct-tree root, struct elements, page labels, annotations, fonts, color
\* spaces, ICC profiles, destinations, graphics states, masks, form objects,
\* shading functions, patterns, pages, images, embedded files, embedded
\* documents) and the slots of a field in the order they were appended; no
\* slot is visited twice in a pass, pass 2 visits the slots pass 1 visited, in
\* the same order, and a returned output has had every slot visited in both.
C32_TraversalInVisitOrder ==
    /\ \A f \in Range(VisitOrder) : \A k, l \in DOMAIN container[f] :
          k < l => container[f][k].id < container[f][l].id
    /\ \A seen \in {seen1, seen2} : \A i, j \in DOMAIN seen :
          i < j => Before(VisitOrder, seen[i][1], seen[j][1])
    /\ Len(seen2) <= Len(seen1)
    /\ \A i \in DOMAIN seen2 : seen2[i][1] = seen1[i][1]
    /\ Returned("Ok") => Len(seen1) = TotalSlots /\ Len(seen2) = TotalSlots

\* C32 witness: a font chunk was appended after a page, and both passes
\* visited the font chunk first.
C32_Witness ==
    /\ Returned("Ok")
    /\ Len(seen2) = 2
    /\ FieldOf(seen2[1][1]) = "fonts" /\ FieldOf(seen2[2][1]) = "pages"
    /\ seen2[1][1] > seen2[2][1]
    /\ seen1[1][1] = seen2[1][1]

----------------------------------------------------------------------------
(* Claims about the document identifier and the instance identifier       *)

HasIdentity == metadata # NoneVal /\ (metadata.val.document_id \/ metadata.val.title
                                                              \/ metadata.val.authors)

\* C33: in a returned output the document identifier is the hash of the
\* explicit document id when the metadata has one; it is derived from the
\* metadata, and so is not the instance identifier, whenever the metadata has
\* an explicit id, a title or authors; it is the instance identifier only
\* without metadata or when the metadata has none of the three.
C33_DocumentIdFromIdentity ==
    Returned("Ok") =>
        /\ file_id # NoneVal
        /\ (metadata # NoneVal /\ metadata.val.document_id) =>
              file_id.val.document_id = hash_base64(<<"pdf_version", "document_id">>)
        /\ HasIdentity <=> file_id.val.document_id # file_id.val.instance_id

\* The content finish writes: everything but the XMP block, which holds the
\* identifier itself.
ContentWritten == SelectSeq(pdf, LAMBDA o : o.kind # "metadata")

\* C34: in a returned output the instance identifier of the file-identifier
\* pair and of the XMP block is the hash of all the content finish wrote:
\* the chunks, the document info, the catalog and the signature objects.
C34_InstanceIdCoversOutput ==
    Returned("Ok") =>
        /\ file_id # NoneVal
        /\ file_id.val.instance_id = hash_base64(ContentWritten)
        /\ \A n \in DOMAIN pdf :
              pdf[n].kind = "metadata" => pdf[n].instance_id = hash_base64(ContentWritten)

----------------------------------------------------------------------------
(* Claims about ExtGState                                                 *)

ReprOf(g, h) == g.arcs[g.egs[h]]

\* C38: self.combine(&other) leaves in each field of self the value of other
\* when other has it set and the value self had otherwise; combining with an
\* empty other changes nothing; other, and every other value in scope,
\* whether or not it shared the data of self before the call, reads after the
\* call as it read before.
C38_CombineRightBiased ==
    [][(gop'.op = "combine" /\ gop'.n = gop.n + 1) =>
          LET before == [arcs |-> arcs, egs |-> egs]
              after == [arcs |-> arcs', egs |-> egs']
              other == gop'.other
          IN /\ \A f \in ReprFields :
                   ReprOf(after, "self")[f] =
                       IF ReprOf(before, other)[f] # NoneVal
                       THEN ReprOf(before, other)[f]
                       ELSE ReprOf(before, "self")[f]
             /\ ext_g_state_empty(before, other) =>
                   ReprOf(after, "self") = ReprOf(before, "self")
             /\ DOMAIN egs' = DOMAIN egs
             /\ \A h \in DOMAIN egs \ {"self"} :
                   ReprOf(after, h) = ReprOf(before, h)]_vars

\* C38 witness: after self.combine(&other) self holds a value of its own in
\* one field and values of other in others, while a clone taken from self
\* earlier still holds what self held then, and other is as it was.
C38_Witness ==
    /\ gop.op = "combine" /\ gop.other = "other"
    /\ "clone" \in DOMAIN egs
    /\ arcs[egs["self"]] = [non_stroking_alpha |-> Some(1), stroking_alpha |-> Some(2),
                            blend_mode |-> NoneVal, mask |-> NoneVal]
    /\ arcs[egs["clone"]] = [non_stroking_alpha |-> Some(1), stroking_alpha |-> Some(1),
                             blend_mode |-> NoneVal, mask |-> NoneVal]
    /\ arcs[egs["other"]] = [non_stroking_alpha |-> NoneVal, stroking_alpha |-> Some(2),
                             blend_mode |-> NoneVal, mask |-> NoneVal]

----------------------------------------------------------------------------
(* Claims about the markers of the signature placeholders                  *)

\* The text of the output, object by object, as far as the markers go: the
\* bytes of a stream chunk, and the Contents and ByteRange entries of the
\* signature dictionary.
ObjText(o) ==
    IF o.kind = "sig" THEN o.contents \o o.byte_range
    ELSE IF "bytes" \in DOMAIN o THEN AsText(o.bytes)
    ELSE <<>>
OutputText == Flatten([n \in DOMAIN pdf |-> ObjText(pdf[n])])

\* Where the signature dictionary starts in the text of the output.
SigStart ==
    LET n == CHOOSE k \in DOMAIN pdf : pdf[k].kind = "sig"
    IN Len(Flatten([k \in 1 .. n - 1 |-> ObjText(pdf[k])]))

OccursAt(marker, text, i) ==
    /\ i + Len(marker) - 1 <= Len(text)
    /\ SubSeq(text, i, i + Len(marker) - 1) = marker

ContentsMarker == <<"B", "E", "E", "F", "F", "A", "C", "E">>

\* C39: in a returned signed output the texts BEEFFACE and 88888888 stand in
\* the signature dictionary, at the start of its Contents and of its
\* ByteRange, and nowhere before it: the first occurrence a scan of the
\* output finds is the placeholder.
C39_MarkersOnlyInSignature ==
    (Returned("Ok") /\ ObjectsOfKind("sig") # <<>>) =>
        /\ OccursAt(ContentsMarker, OutputText, SigStart + 2)
        /\ OccursAt(Eights, OutputText, SigStart + Len(write_str(sig_contents)) + 2)
        /\ \A i \in 1 .. SigStart :
              /\ ~OccursAt(ContentsMarker, OutputText, i)
              /\ ~OccursAt(Eights, OutputText, i)

----------------------------------------------------------------------------
(* Claims about the references minted for embedded foreign documents      *)

\* The host references minted for the unpinned references of the embedded
\* PDF at index i, once its local remap has run.
Minted(i) ==
    LET slot == container["embedded_pdfs"][i]
    IN {HostRef(slot, old) : old \in DistinctRefs(slot) \ PinnedRefs(slot)}

\* The pinned targets of all embedded PDFs.
PinnedTargets ==
    UNION {Range(container["embedded_pdfs"][i].mappings) :
              i \in DOMAIN container["embedded_pdfs"]}

\* The references the chunks handed to pass 1 define, slot by slot.
Defined1(n) == Range(ChunkRefs(seen1[n][2]))

\* C40: the references minted for an embedded foreign document are none of
\* the references handed out during authoring, none of the pinned targets,
\* and none of those minted for another embedded document; the chunks that
\* pass 1 is handed, remapped foreign chunks among them, define every
\* pre-remap reference once, and finish does not abort on a duplicate.
C40_MintedRefsFresh ==
    /\ \A i \in Remapped :
          /\ Minted(i) \cap (1 .. AuthoredNext - 1) = {}
          /\ Minted(i) \cap PinnedTargets = {}
          /\ \A j \in Remapped \ {i} : Minted(i) \cap Minted(j) = {}
    /\ \A a, b \in DOMAIN seen1 : a # b => Defined1(a) \cap Defined1(b) = {}
    /\ \A a \in DOMAIN seen1 : Cardinality(Defined1(a)) = Len(seen1[a][2])
    /\ result # PanicResult

\* C40 witness: finish returned a document that embeds two foreign
\* documents, each with a pinned and an unpinned reference.
C40_Witness ==
    /\ Returned("Ok")
    /\ Cardinality(Remapped) = 2
    /\ \A i \in Remapped :
          /\ Minted(i) # {}
          /\ PinnedRefs(container["embedded_pdfs"][i]) # {}
    /\ Cardinality(UNION {Minted(i) : i \in Remapped} \cup PinnedTargets) = 4

====
